---- MODULE Spec2Model ----
(***************************************************************************)
(* Castle: mesh coordination (castle_api.mqtt_client, castle_api.mesh),    *)
(* SSE fan-out (stream.py, main.py), the MQTT client life cycle, service   *)
(* actions, the registry compiler, the gateway configuration, the API      *)
(* views, the catalog editor, the event bus, castle create, the timer      *)
(* generator and the devbox tunnel manager, modelled from the Python       *)
(* sources.                                                                *)
(*                                                                         *)
(* The module holds several specifications over one set of variables; each *)
(* specification moves only its own group of variables:                    *)
(*   SerSpec     the registry <-> JSON conversion of mqtt_client.py        *)
(*   MeshSpec    the inbound MQTT handler and MeshStateManager             *)
(*   MeshFairSpec  MeshSpec with the scheduling the code provides          *)
(*   ReaderSpec  MeshSpec with an API handler reading concurrently         *)
(*   StreamSpec  the SSE subscriber list, queues, generators and shutdown  *)
(*   MqttSpec    the local MQTT client: connect, publish, stop             *)
(*   ActionSpec  the service actions of services.py over systemd           *)
(*   DeploySpec  run_deploy and the registry file, with a concurrent reader *)
(*   ViewSpec    the Caddyfile, GET /gateway, /components and /services     *)
(*   EditSpec    the operations that save castle.yaml                       *)
(*   BusSpec     the event bus: subscription table and HTTP fan-out         *)
(*   CreateSpec  load_config, castle create and PUT /config/services        *)
(*   TimerSpec   the cron-to-timer conversion of generate_timer             *)
(*   TunnelSpec  the tunnel manager: accept loops, reconnect loops, stop    *)
(***************************************************************************)
EXTENDS Integers, Sequences, FiniteSets, TLC

VARIABLES
    \* --- SerSpec ---
    ser_registry,   \* the NodeRegistry handed to _registry_to_json
    ser_result,     \* what _registry_to_json returned or raised for it
    \* --- MeshSpec ---
    nodes,          \* MeshStateManager._nodes: hostname -> RemoteNode
    entries,        \* insertion order of the _nodes dict (with holes)
    now,            \* time.time(), in seconds
    scheduled,      \* broadcast coroutines handed to the event loop
    last,           \* the last call of _on_message and its outcome
    reader,         \* an API handler thread calling all_nodes()
    \* --- StreamSpec ---
    subscribers,    \* stream._subscribers: list of queues
    queue,          \* the asyncio.Queue of each SSE connection
    gen,            \* position of each connection's event_generator
    should_exit,    \* uvicorn Server.should_exit
    shutting_down,  \* main._shutting_down
    watcher,        \* position of the _watch_shutdown task
    lifespan,       \* position of the lifespan context manager
    poll_task,      \* the health_poll_loop task
    closed_for,     \* connections subscribed when close_all_subscribers ran
    \* --- MqttSpec ---
    local_registry, \* CastleMQTTClient._local_registry
    connected,      \* CastleMQTTClient._connected
    session,        \* state of the connection to the broker
    net_thread,     \* paho's network loop thread
    out_packet,     \* paho's queue of packets not yet written
    broker_rx,      \* packets the broker received from this client, in order
    subscribed,     \* topic filters the client subscribed to
    stop_pc,        \* position inside CastleMQTTClient.stop()
    connects,       \* number of CONNACKs handled so far
    last_connect,   \* outcome of the last _on_connect call
    \* --- ActionSpec ---
    units,          \* systemd: the state of each managed unit
    req,            \* the service-action request being handled
    answered,       \* the last request answered, with all it did
    handled,        \* number of requests answered so far
    emitted,        \* frames handed to broadcast() by the action handler
    issued,         \* systemctl control commands run, in order
    deferred,       \* _deferred_systemctl tasks not yet run
    clock,          \* the event loop's time, in ms
    \* --- DeploySpec ---
    catalog,        \* castle.yaml: the services and jobs of the catalog
    path_has,       \* whether PATH holds the tools the catalog names
    registry_file,  \* ~/.castle/registry.yaml on disk
    deploy,         \* position inside run_deploy, with its locals
    deploy_result,  \* the last run_deploy that returned, with what it did
    deploys,        \* number of run_deploy calls so far
    reg_read,       \* the last load_registry of another process
    \* --- ViewSpec ---
    view_registry,  \* the registry get_registry() returns
    view_catalog,   \* the catalog load_config() returns, if any
    view_mesh,      \* what mesh_state.all_nodes() returns
    view_out,       \* the gateway configuration or view produced
    \* --- EditSpec ---
    catalog_file,   \* castle.yaml on disk
    backup_file,    \* castle.yaml.bak on disk
    last_save,      \* the last save operation and the catalog it found
    \* --- BusSpec ---
    subscriptions,  \* EventBus.subscriptions: topic -> list of Subscription
    bus_client,     \* EventBus._client is not None
    publish,        \* the publish call in flight and its _deliver tasks
    bus_last,       \* the last subscribe or unsubscribe and the table before
    \* --- CreateSpec ---
    create_config,  \* the catalog (CastleConfig) as last accepted
    create_last,    \* the operation that accepted or refused it
    \* --- TimerSpec ---
    timer_cron,     \* the fields of the schedule trigger's cron expression
    timer_lines,    \* the [Timer] lines generate_timer made of it
    \* --- TunnelSpec ---
    mgr_started,    \* TunnelManager.start() was called
    mgr_stop,       \* TunnelManager._stop_event is set
    host_stop,      \* HostConnection._stop_event is set
    ssh_client,     \* HostConnection.client: "none" or "connected"
    transport_active,  \* the SSH transport of the client is alive
    accept_loop,    \* tunnel -> where its _accept_loop thread is
    reconnect_threads, \* where each thread running _reconnect_loop is
    since_stop      \* what was opened or started after stop() was called

serVars    == <<ser_registry, ser_result>>
meshVars   == <<nodes, entries, now, scheduled, last, reader>>
streamVars == <<subscribers, queue, gen, should_exit, shutting_down, watcher,
                lifespan, poll_task, closed_for>>
mqttVars   == <<local_registry, connected, session, net_thread, out_packet,
                broker_rx, subscribed, stop_pc, connects, last_connect>>
actVars    == <<units, req, answered, handled, emitted, issued, deferred, clock>>
coordVars  == <<serVars, meshVars, streamVars, mqttVars>>
deployVars == <<catalog, path_has, registry_file, deploy, deploy_result, deploys, reg_read>>
viewVars   == <<view_registry, view_catalog, view_mesh, view_out>>
editVars   == <<catalog_file, backup_file, last_save>>
busVars    == <<subscriptions, bus_client, publish, bus_last>>
createVars == <<create_config, create_last>>
timerVars  == <<timer_cron, timer_lines>>
tunnelVars == <<mgr_started, mgr_stop, host_stop, ssh_client, transport_active,
                accept_loop, reconnect_threads, since_stop>>
auxVars    == <<busVars, createVars, timerVars, tunnelVars>>
fileVars   == <<deployVars, viewVars, editVars, auxVars>>
mainVars   == <<coordVars, actVars, deployVars, viewVars, editVars>>
busRest    == <<mainVars, createVars, timerVars, tunnelVars>>
createRest == <<mainVars, busVars, timerVars, tunnelVars>>
timerRest  == <<mainVars, busVars, createVars, tunnelVars>>
tunnelRest == <<mainVars, busVars, createVars, timerVars>>
opsVars    == <<actVars, fileVars>>
vars       == <<coordVars, opsVars>>

----------------------------------------------------------------------------
(* Python / JSON values.  json.dumps and json.loads map str, int, bool,    *)
(* None and str-keyed dicts one to one, so one tagged value domain serves   *)
(* both sides; what the wire adds is text that is not JSON at all.          *)

None      == [t |-> "null"]
Str(s)    == [t |-> "str", v |-> s]
Num(n)    == [t |-> "num", v |-> n]
Bool(b)   == [t |-> "bool", v |-> b]
List(s)   == [t |-> "list", v |-> s]
Dict(f)   == [t |-> "obj", v |-> f]
EmptyMap  == [k \in {} |-> None]

\* Python truthiness, as used by "if comp.description:" and "if not hostname:".
Truthy(x) ==
    CASE x.t = "null" -> FALSE
      [] x.t = "str"  -> x.v # ""
      [] x.t = "num"  -> x.v # 0
      [] x.t = "bool" -> x.v
      [] x.t = "list" -> Len(x.v) > 0
      [] x.t = "obj"  -> DOMAIN x.v # {}

\* Outcomes of a call: a returned value or a raised exception.
Return(x) == [ok |-> TRUE, value |-> x]
Raise(e)  == [ok |-> FALSE, exc |-> e]

\* d.get(key, default); raises AttributeError when d is not a dict.
DictGet(d, key, default) ==
    IF d.t # "obj" THEN Raise("AttributeError")
    ELSE IF key \in DOMAIN d.v THEN Return(d.v[key]) ELSE Return(default)

\* The text of an MQTT payload: JSON text (given by the document it denotes),
\* other text, or bytes that are not UTF-8.
JsonText(doc) == [kind |-> "json", doc |-> doc]
RawText(s)    == [kind |-> "raw", text |-> s]
BadBytes      == [kind |-> "bytes"]

\* json.dumps.
JsonDumps(data) == JsonText(data)

\* Mutant: text that is not JSON is read as an empty object.
JsonLoadsLenient(payload) ==
    IF payload.kind = "json" THEN Return(payload.doc) ELSE Return(Dict(EmptyMap))

\* json.loads.
JsonLoads(payload) ==
    IF payload.kind = "json" THEN Return(payload.doc) ELSE Raise("JSONDecodeError")

----------------------------------------------------------------------------
(* castle_core.registry: the dataclasses.                                  *)

GatewayPortDefault == 9000

\* socket.gethostname() of the node the code runs on.
LocalHostname == "tower"

\* The fields of the dataclass DeployedComponent.
DeployedComponentFields ==
    {"runner", "run_cmd", "env", "description", "behavior", "stack", "port",
     "health_path", "proxy_path", "schedule", "managed"}

DeployedComponentDefaults ==
    [env |-> Dict(EmptyMap), description |-> None, behavior |-> Str("daemon"),
     stack |-> None, port |-> None, health_path |-> None, proxy_path |-> None,
     schedule |-> None, managed |-> Bool(FALSE)]

\* DeployedComponent(**kwargs): an unknown keyword or a missing required
\* field raises TypeError; the other fields take their defaults.
DeployedComponent(kwargs) ==
    IF ~(DOMAIN kwargs \subseteq DeployedComponentFields) THEN Raise("TypeError")
    ELSE IF ~({"runner", "run_cmd"} \subseteq DOMAIN kwargs) THEN Raise("TypeError")
    ELSE Return(kwargs @@ DeployedComponentDefaults)

\* NodeConfig(hostname, castle_root, gateway_port) with __post_init__.
NodeConfig(hostname, castle_root, gateway_port) ==
    [hostname     |-> IF Truthy(hostname) THEN hostname ELSE Str(LocalHostname),
     castle_root  |-> castle_root,
     gateway_port |-> gateway_port]

NodeRegistry(node, deployed) == [node |-> node, deployed |-> deployed]

\* getattr(obj, name): AttributeError when the object has no such attribute.
GetAttr(obj, name) ==
    IF name \in DOMAIN obj THEN Return(obj[name]) ELSE Raise("AttributeError")

----------------------------------------------------------------------------
(* castle_api.mqtt_client: _registry_to_json and _json_to_registry.        *)

\* The optional keys of one entry: present only when the field is truthy
\* (port: when it is not None).
OptionalEntry(comp) ==
    LET opt(key, present) == IF present THEN key :> comp[key] ELSE EmptyMap
    IN  opt("description", Truthy(comp.description))
        @@ opt("port", comp.port.t # "null")
        @@ opt("health_path", Truthy(comp.health_path))
        @@ opt("proxy_path", Truthy(comp.proxy_path))
        @@ opt("schedule", Truthy(comp.schedule))
        @@ opt("managed", Truthy(comp.managed))

\* The entry built for one component (lines 45-60).  It reads comp.category.
ComponentEntry(comp) ==
    LET category == GetAttr(comp, "category")
    IN  IF ~category.ok THEN category
        ELSE Return(Dict(("runner" :> comp.runner)
                         @@ ("category" :> category.value)
                         @@ OptionalEntry(comp)))

\* Mutant: the node section also carries castle_root.
NodeSectionLeaky(registry) ==
    Dict(("hostname" :> registry.node.hostname)
         @@ ("gateway_port" :> registry.node.gateway_port)
         @@ ("castle_root" :> registry.node.castle_root))

\* The "node" object of the payload (lines 37-40).
NodeSection(registry) ==
    Dict(("hostname" :> registry.node.hostname)
         @@ ("gateway_port" :> registry.node.gateway_port))

\* _registry_to_json(registry): the JSON text, or the exception raised while
\* building an entry.
RegistryToJson(registry) ==
    LET names == DOMAIN registry.deployed
        built == [n \in names |-> ComponentEntry(registry.deployed[n])]
    IN  IF \E n \in names : ~built[n].ok
        THEN Raise(built[CHOOSE n \in names : ~built[n].ok].exc)
        ELSE Return(JsonDumps(Dict(
                 ("node" :> NodeSection(registry))
                 @@ ("deployed" :> Dict([n \in names |-> built[n].value])))))

\* The keyword arguments _json_to_registry passes to DeployedComponent for
\* one entry (lines 77-88), or AttributeError when the entry is no dict.
ComponentKwargs(comp_data) ==
    IF comp_data.t # "obj" THEN Raise("AttributeError")
    ELSE LET get(key, default) == DictGet(comp_data, key, default).value
         IN  Return([runner      |-> get("runner", Str("command")),
                     run_cmd     |-> get("run_cmd", List(<<>>)),
                     env         |-> get("env", Dict(EmptyMap)),
                     description |-> get("description", None),
                     category    |-> get("category", Str("service")),
                     port        |-> get("port", None),
                     health_path |-> get("health_path", None),
                     proxy_path  |-> get("proxy_path", None),
                     schedule    |-> get("schedule", None),
                     managed     |-> get("managed", Bool(FALSE))])

\* One DeployedComponent built from its entry.
ComponentFromJson(comp_data) ==
    LET kwargs == ComponentKwargs(comp_data)
    IN  IF ~kwargs.ok THEN kwargs ELSE DeployedComponent(kwargs.value)

\* _json_to_registry(payload): the NodeRegistry, or the exception raised.
JsonToRegistry(payload) ==
    LET loaded == JsonLoads(payload)
    IN  IF ~loaded.ok THEN loaded ELSE
    LET data      == loaded.value
        node_data == DictGet(data, "node", Dict(EmptyMap))
    IN  IF ~node_data.ok THEN node_data
        ELSE IF node_data.value.t # "obj" THEN Raise("AttributeError") ELSE
    LET nd   == node_data.value
        node == NodeConfig(DictGet(nd, "hostname", Str("")).value,
                           DictGet(nd, "castle_root", None).value,
                           DictGet(nd, "gateway_port", Num(GatewayPortDefault)).value)
        dep  == DictGet(data, "deployed", Dict(EmptyMap)).value
    IN  IF dep.t # "obj" THEN Raise("AttributeError") ELSE
    LET names == DOMAIN dep.v
        built == [n \in names |-> ComponentFromJson(dep.v[n])]
    IN  IF \E n \in names : ~built[n].ok
        THEN Raise(built[CHOOSE n \in names : ~built[n].ok].exc)
        ELSE Return(NodeRegistry(node, [n \in names |-> built[n].value]))

----------------------------------------------------------------------------
(* Registries the model draws from: the fixtures of tests/test_mqtt.py,    *)
(* varied field by field.                                                  *)

MaxDeployed == 1

ComponentNames == {"my-svc", "env"}

Exposures ==
    { [port |-> None, health_path |-> None, proxy_path |-> None],
      [port |-> Num(0), health_path |-> Str(""), proxy_path |-> None],
      [port |-> Num(9001), health_path |-> Str("/health"),
       proxy_path |-> Str("/my-svc")] }

SampleComponents ==
    { [runner      |-> Str("python"),
       run_cmd     |-> List(<<Str("uv"), Str("run"), Str("my-svc")>>),
       env         |-> Dict("SECRET_KEY" :> Str("super-secret")),
       description |-> d,
       behavior    |-> Str(b),
       stack       |-> s,
       port        |-> e.port,
       health_path |-> e.health_path,
       proxy_path  |-> e.proxy_path,
       schedule    |-> sc,
       managed     |-> Bool(m)] :
      d \in {None, Str(""), Str("My service")},
      b \in {"daemon", "tool"},
      s \in {None, Str("python-fastapi")},
      e \in Exposures,
      sc \in {None, Str("0 2 * * *")},
      m \in BOOLEAN }

DeployedMaps ==
    UNION { [names -> SampleComponents] :
            names \in {S \in SUBSET ComponentNames : Cardinality(S) <= MaxDeployed} }

SampleNodes ==
    { [hostname |-> Str(LocalHostname), castle_root |-> root, gateway_port |-> Num(port)] :
      root \in {None, Str("/data/repos/castle")},
      port \in {GatewayPortDefault, 9443} }

Registries == { NodeRegistry(node, deployed) : node \in SampleNodes, deployed \in DeployedMaps }

----------------------------------------------------------------------------
(* SerSpec: the serializer applied to any registry.                        *)

NotCalled == [called |-> FALSE]
Called(result) == [called |-> TRUE, result |-> result]

SerInit ==
    /\ ser_registry \in Registries
    /\ ser_result = NotCalled

\* A call of _registry_to_json(ser_registry).
Serialize ==
    /\ ~ser_result.called
    /\ ser_result' = Called(RegistryToJson(ser_registry))
    /\ UNCHANGED ser_registry
    /\ UNCHANGED <<meshVars, streamVars, mqttVars, opsVars>>

----------------------------------------------------------------------------
(* castle_api.mesh: RemoteNode and MeshStateManager.                       *)

STALE_TTL_SECONDS == 300

\* RemoteNode(registry=registry): last_seen defaults to time.time(), online
\* to True.
RemoteNode(registry, t) == [registry |-> registry, last_seen |-> t, online |-> TRUE]

\* RemoteNode.is_stale at time t.
IsStale(n, t) == (t - n.last_seen) > STALE_TTL_SECONDS

\* MeshStateManager.update_node: self._nodes[hostname] = RemoteNode(registry).
UpdateNode(ns, hostname, registry, t) ==
    (hostname :> RemoteNode(registry, t)) @@ ns

\* Mutant: set_offline drops the peer instead of marking it.
SetOfflineDrops(ns, hostname) ==
    [h \in DOMAIN ns \ {hostname} |-> ns[h]]

\* MeshStateManager.set_offline: only a known peer is marked.
SetOffline(ns, hostname) ==
    IF hostname \in DOMAIN ns
    THEN [ns EXCEPT ![hostname].online = FALSE]
    ELSE ns

\* The dict's insertion order after self._nodes[hostname] = ...: a new key goes
\* to the end, a known key keeps its place.
InsertKey(order, hostname) ==
    IF \E i \in 1..Len(order) : order[i] = hostname THEN order
    ELSE Append(order, hostname)

\* MeshStateManager.all_nodes(include_stale=True): dict(self._nodes).
AllNodesCopy(ns) == ns

\* MeshStateManager.all_nodes(): the peers that are not stale at time t, when
\* the comprehension runs undisturbed.
AllNodesFresh(ns, t) ==
    [h \in {k \in DOMAIN ns : ~IsStale(ns[k], t)} |-> ns[h]]

----------------------------------------------------------------------------
(* The messages paho can hand to _on_message: the subscriptions are        *)
(* castle/+/registry and castle/+/status.                                  *)

Peers == {"devbox", "nas"}

TopicHosts == Peers \cup {LocalHostname}

Topics == { <<"castle", h, ty>> : h \in TopicHosts, ty \in {"registry", "status"} }

\* The registry of a peer that deploys nothing, and what that peer publishes.
PeerRegistry(h, port) ==
    NodeRegistry(NodeConfig(Str(h), Str("/home/peer/castle"), Num(port)), EmptyMap)

\* A payload in the documented wire format with one deployed component.
PayloadWithComponent(h) ==
    JsonText(Dict(
        ("node" :> Dict(("hostname" :> Str(h)) @@ ("gateway_port" :> Num(GatewayPortDefault))))
        @@ ("deployed" :> Dict("svc" :> Dict(("runner" :> Str("python"))
                                             @@ ("category" :> Str("service"))
                                             @@ ("port" :> Num(9010))
                                             @@ ("proxy_path" :> Str("/svc")))))))

\* Well-formed registry payloads for host h.
RegistryPayloads(h) ==
    { RegistryToJson(PeerRegistry(h, port)).value : port \in {GatewayPortDefault, 9443} }
    \cup { PayloadWithComponent(h) }

\* Payloads on which _json_to_registry or the decode raises.
MalformedPayloads ==
    { RawText("not json"),
      JsonText(List(<<>>)),
      JsonText(Dict("deployed" :> Dict("svc" :> Num(3)))),
      BadBytes }

StatusPayloads == { RawText("online"), RawText("offline") }

\* What can arrive on the topics of host h.
PayloadsFor(h) == RegistryPayloads(h) \cup MalformedPayloads \cup StatusPayloads

Messages ==
    UNION { { [topic |-> <<"castle", h, ty>>, payload |-> pl] :
              ty \in {"registry", "status"}, pl \in PayloadsFor(h) } : h \in TopicHosts }

----------------------------------------------------------------------------
(* stream.py: the SSE subscriber list and its queues.                      *)

QueueMaxSize == 64

\* The shutdown sentinel: the empty frame.
Sentinel == ""

\* payload = f"event: {event_type}\ndata: {json.dumps(data)}\n\n"
Frame(event_type, data) == "event: " \o event_type \o "\ndata: " \o data \o "\n\n"

\* json.dumps of the data of a mesh event.
MeshEventData(event, hostname) ==
    "{\"event\": \"" \o event \o "\", \"hostname\": \"" \o hostname \o "\"}"

\* json.dumps of the data of a health frame; statuses and timestamp are not
\* looked at by any consumer in the model.
HealthData == "{\"statuses\": [], \"timestamp\": 0}"

\* asyncio.Queue.full()
Full(q) == Len(q) >= QueueMaxSize

\* list.remove(q) inside unsubscribe(): the first occurrence leaves, a queue
\* that is not in the list is ignored (ValueError caught).
Unsubscribe(subs, c) == SelectSeq(subs, LAMBDA x : x # c)

\* subscribe(): a fresh queue appended to the list.
Subscribe(subs, c) == Append(subs, c)

InSeq(seq, x) == \E i \in 1..Len(seq) : seq[i] = x

\* Mutant: broadcast gives up at the first full queue.
BroadcastStopsAtFull(subs, qs, payload) ==
    LET firstFull == IF \E i \in 1..Len(subs) : Full(qs[subs[i]])
                     THEN CHOOSE i \in 1..Len(subs) :
                              /\ Full(qs[subs[i]])
                              /\ \A j \in 1..(i-1) : ~Full(qs[subs[j]])
                     ELSE Len(subs) + 1
        reached(c) == \E i \in 1..(firstFull - 1) : subs[i] = c
    IN  [subscribers |-> SelectSeq(subs, LAMBDA c : ~Full(qs[c])),
         queue |-> [c \in DOMAIN qs |->
                       IF reached(c) THEN Append(qs[c], payload) ELSE qs[c]]]

\* broadcast(event_type, data): put_nowait on every subscribed queue; the
\* queues that raised QueueFull are unsubscribed afterwards.
Broadcast(subs, qs, payload) ==
    LET dead == SelectSeq(subs, LAMBDA c : Full(qs[c]))
    IN  [subscribers |-> SelectSeq(subs, LAMBDA c : ~InSeq(dead, c)),
         queue |-> [c \in DOMAIN qs |->
                       IF InSeq(subs, c) /\ ~Full(qs[c])
                       THEN Append(qs[c], payload) ELSE qs[c]]]

\* close_all_subscribers(): the sentinel is put on every subscribed queue
\* that has room (QueueFull is passed over); then the list is cleared.
CloseAllSubscribers(subs, qs) ==
    [subscribers |-> <<>>,
     queue |-> [c \in DOMAIN qs |->
                   IF InSeq(subs, c) /\ ~Full(qs[c])
                   THEN Append(qs[c], Sentinel) ELSE qs[c]]]

----------------------------------------------------------------------------
(* castle_api.mqtt_client: CastleMQTTClient._on_message, run by paho's     *)
(* network thread, and the hand-off of the mesh event to the event loop.   *)

TickSeconds  == 150
MaxNow       == 450
MaxScheduled == 1

\* What _on_message does with msg, given the mesh state ns at time t:
\* the new mesh state, the broadcast it schedules (if any) and how it ended.
HandleMessage(ns, msg, t) ==
    LET parts == msg.topic
        done(state, events, outcome) ==
            [nodes |-> state, schedule |-> events, outcome |-> outcome]
    IN  IF Len(parts) # 3 \/ parts[1] # "castle" THEN done(ns, <<>>, "ignored")
        ELSE
    LET hostname == parts[2]
        msg_type == parts[3]
    IN  IF hostname = LocalHostname THEN done(ns, <<>>, "ignored")
        ELSE IF msg.payload.kind = "bytes" THEN done(ns, <<>>, "logged")
        ELSE IF msg_type = "registry"
        THEN LET registry == JsonToRegistry(msg.payload)
             IN  IF ~registry.ok THEN done(ns, <<>>, "logged")
                 ELSE done(UpdateNode(ns, hostname, registry.value, t),
                           <<[event |-> "node_updated", hostname |-> hostname]>>,
                           "updated")
        ELSE IF msg_type = "status"
        THEN IF msg.payload = RawText("offline")
             THEN done(SetOffline(ns, hostname),
                       <<[event |-> "node_offline", hostname |-> hostname]>>,
                       "offline")
             ELSE done(ns, <<>>, "ignored")
        ELSE done(ns, <<>>, "ignored")

\* paho delivers msg to _on_message.
OnMessage(msg) ==
    LET r == HandleMessage(nodes, msg, now)
    IN  /\ Len(scheduled) + Len(r.schedule) <= MaxScheduled
        /\ nodes' = r.nodes
        /\ entries' = IF r.outcome = "updated" THEN InsertKey(entries, msg.topic[2])
                      ELSE entries
        /\ scheduled' = scheduled \o r.schedule
        /\ last' = [topic |-> msg.topic, outcome |-> r.outcome]
        /\ UNCHANGED <<now, reader>>
        /\ UNCHANGED <<serVars, streamVars, mqttVars, opsVars>>

\* The event loop runs a scheduled broadcast("mesh", data).
LoopRunBroadcast ==
    /\ scheduled # <<>>
    /\ LET ev == Head(scheduled)
           r  == Broadcast(subscribers, queue,
                           Frame("mesh", MeshEventData(ev.event, ev.hostname)))
       IN  /\ subscribers' = r.subscribers
           /\ queue' = r.queue
    /\ scheduled' = Tail(scheduled)
    /\ UNCHANGED <<nodes, entries, now, last, reader>>
    /\ UNCHANGED <<gen, should_exit, shutting_down, watcher, lifespan, poll_task,
                   closed_for>>
    /\ UNCHANGED <<serVars, mqttVars, opsVars>>

\* Time passes.
Tick ==
    /\ now + TickSeconds <= MaxNow
    /\ now' = now + TickSeconds
    /\ UNCHANGED <<nodes, entries, scheduled, last, reader>>
    /\ UNCHANGED <<serVars, streamVars, mqttVars, opsVars>>

----------------------------------------------------------------------------
(* An API handler (routes.py, nodes.py) reading the mesh state on its own  *)
(* thread while paho's thread runs _on_message.                            *)

ReaderIdle ==
    [pc |-> "idle", di_used |-> 0, pos |-> 0, acc |-> EmptyMap,
     result |-> EmptyMap, keys |-> <<>>, seen |-> {}]

\* nodes.list_nodes: mesh_state.all_nodes(include_stale=True) is dict(self._nodes),
\* one step of the interpreter.
ReaderCallCopy ==
    /\ reader.pc = "idle"
    /\ reader' = [ReaderIdle EXCEPT !.pc = "iterate", !.result = AllNodesCopy(nodes),
                                    !.keys = entries, !.pos = 1]
    /\ UNCHANGED <<nodes, entries, now, scheduled, last>>
    /\ UNCHANGED <<serVars, streamVars, mqttVars, opsVars>>

\* routes.list_services, get_gateway, ...: mesh_state.all_nodes() starts the
\* comprehension over self._nodes.items(); the iterator notes the dict's size.
ReaderCallFresh ==
    /\ reader.pc = "idle"
    /\ reader' = [ReaderIdle EXCEPT !.pc = "comprehension", !.di_used = Len(entries),
                                    !.pos = 1]
    /\ UNCHANGED <<nodes, entries, now, scheduled, last>>
    /\ UNCHANGED <<serVars, streamVars, mqttVars, opsVars>>

\* One round of the comprehension: the dict iterator raises RuntimeError when
\* the dict's size differs from the size it noted; otherwise the next item is
\* taken and kept unless n.is_stale.
ReaderCompNext ==
    /\ reader.pc = "comprehension"
    /\ reader' =
         IF Len(entries) # reader.di_used
         THEN [reader EXCEPT !.pc = "RuntimeError"]
         ELSE IF reader.pos > Len(entries)
         THEN [reader EXCEPT !.pc = "iterate", !.result = reader.acc,
                             !.keys = SelectSeq(entries, LAMBDA h : h \in DOMAIN reader.acc),
                             !.pos = 1]
         ELSE LET h == entries[reader.pos]
              IN  [reader EXCEPT !.pos = @ + 1,
                                 !.acc = IF IsStale(nodes[h], now) THEN @
                                         ELSE (h :> nodes[h]) @@ @]
    /\ UNCHANGED <<nodes, entries, now, scheduled, last>>
    /\ UNCHANGED <<serVars, streamVars, mqttVars, opsVars>>

\* The handler's own loop over the returned dict, which no other thread holds.
ReaderIterNext ==
    /\ reader.pc = "iterate"
    /\ reader' =
         IF reader.pos > Len(reader.keys)
         THEN [reader EXCEPT !.pc = "done"]
         ELSE [reader EXCEPT !.pos = @ + 1, !.seen = @ \cup {reader.keys[reader.pos]}]
    /\ UNCHANGED <<nodes, entries, now, scheduled, last>>
    /\ UNCHANGED <<serVars, streamVars, mqttVars, opsVars>>

\* The handler answers (200, or 500 after the RuntimeError) and the next
\* request may come.
ReaderReturn ==
    /\ reader.pc \in {"done", "RuntimeError"}
    /\ reader' = ReaderIdle
    /\ UNCHANGED <<nodes, entries, now, scheduled, last>>
    /\ UNCHANGED <<serVars, streamVars, mqttVars, opsVars>>

----------------------------------------------------------------------------
(* main.py: the SSE endpoint, the shutdown watcher and the lifespan.       *)

Conns == {"c1", "c2"}

\* GET /stream: subscribe() and the generator's first frame ("connected").
SseStream(c) ==
    /\ gen[c] = "none"
    /\ lifespan = "running"
    /\ ~should_exit
    /\ subscribers' = Subscribe(subscribers, c)
    /\ queue' = [queue EXCEPT ![c] = <<>>]
    /\ gen' = [gen EXCEPT ![c] = "reading"]
    /\ UNCHANGED <<should_exit, shutting_down, watcher, lifespan, poll_task, closed_for>>
    /\ UNCHANGED <<serVars, meshVars, mqttVars, opsVars>>

\* event_generator: msg = await q.get(); an empty msg breaks the loop and the
\* finally clause unsubscribes; any other msg is yielded.
GenNext(c) ==
    /\ gen[c] = "reading"
    /\ queue[c] # <<>>
    /\ queue' = [queue EXCEPT ![c] = Tail(@)]
    /\ IF Head(queue[c]) = Sentinel
       THEN /\ gen' = [gen EXCEPT ![c] = "ended"]
            /\ subscribers' = Unsubscribe(subscribers, c)
       ELSE UNCHANGED <<gen, subscribers>>
    /\ UNCHANGED <<should_exit, shutting_down, watcher, lifespan, poll_task, closed_for>>
    /\ UNCHANGED <<serVars, meshVars, mqttVars, opsVars>>

\* The client goes away: the generator is cancelled (CancelledError) and its
\* finally clause unsubscribes.
ClientDisconnect(c) ==
    /\ gen[c] = "reading"
    /\ gen' = [gen EXCEPT ![c] = "cancelled"]
    /\ subscribers' = Unsubscribe(subscribers, c)
    /\ UNCHANGED <<queue, should_exit, shutting_down, watcher, lifespan, poll_task,
                   closed_for>>
    /\ UNCHANGED <<serVars, meshVars, mqttVars, opsVars>>

\* health_poll_loop: one round, broadcast("health", ...).
HealthPoll ==
    /\ poll_task = "running"
    /\ LET r == Broadcast(subscribers, queue, Frame("health", HealthData))
       IN  /\ subscribers' = r.subscribers
           /\ queue' = r.queue
    /\ UNCHANGED <<gen, should_exit, shutting_down, watcher, lifespan, poll_task,
                   closed_for>>
    /\ UNCHANGED <<serVars, meshVars, mqttVars, opsVars>>

\* A termination signal: uvicorn sets should_exit.
Signal ==
    /\ lifespan = "running"
    /\ ~should_exit
    /\ should_exit' = TRUE
    /\ UNCHANGED <<subscribers, queue, gen, shutting_down, watcher, lifespan,
                   poll_task, closed_for>>
    /\ UNCHANGED <<serVars, meshVars, mqttVars, opsVars>>

\* _watch_shutdown leaves its sleep loop: _shutting_down = True and
\* close_all_subscribers().
WatchShutdown ==
    /\ watcher = "polling"
    /\ should_exit
    /\ LET r == CloseAllSubscribers(subscribers, queue)
       IN  /\ subscribers' = r.subscribers
           /\ queue' = r.queue
    /\ closed_for' = closed_for \cup {subscribers[i] : i \in 1..Len(subscribers)}
    /\ shutting_down' = TRUE
    /\ watcher' = "done"
    /\ UNCHANGED <<gen, should_exit, lifespan, poll_task>>
    /\ UNCHANGED <<serVars, meshVars, mqttVars, opsVars>>

\* The lifespan after its yield, entered by uvicorn once should_exit is set and
\* every connection has closed: _shutting_down = True, poll_task.cancel(),
\* close_all_subscribers() (mqtt and mdns are not enabled by default).
LifespanShutdown ==
    /\ lifespan = "running"
    /\ should_exit
    /\ \A c \in Conns : gen[c] # "reading"
    /\ LET r == CloseAllSubscribers(subscribers, queue)
       IN  /\ subscribers' = r.subscribers
           /\ queue' = r.queue
    /\ closed_for' = closed_for \cup {subscribers[i] : i \in 1..Len(subscribers)}
    /\ shutting_down' = TRUE
    /\ poll_task' = "cancelled"
    /\ lifespan' = "stopped"
    /\ UNCHANGED <<gen, should_exit, watcher>>
    /\ UNCHANGED <<serVars, meshVars, mqttVars, opsVars>>

\* serve_with_watcher: after server.serve() returns, watcher.cancel().
WatcherCancel ==
    /\ lifespan = "stopped"
    /\ watcher = "polling"
    /\ watcher' = "cancelled"
    /\ UNCHANGED <<subscribers, queue, gen, should_exit, shutting_down, lifespan,
                   poll_task, closed_for>>
    /\ UNCHANGED <<serVars, meshVars, mqttVars, opsVars>>

----------------------------------------------------------------------------
(* castle_api.mqtt_client: the local client towards the broker.  paho keeps *)
(* the packets handed to it in one FIFO (out_packet); its network thread    *)
(* writes them while it runs, and a call made when no thread runs writes    *)
(* the queue itself.                                                        *)

MaxConnects == 2

StatusTopic   == "castle/" \o LocalHostname \o "/status"
RegistryTopic == "castle/" \o LocalHostname \o "/registry"

Publish(topic, payload) ==
    [type |-> "PUBLISH", topic |-> topic, payload |-> payload, qos |-> 1, retain |-> TRUE]
SubscribePacket(filter) ==
    [type |-> "SUBSCRIBE", topic |-> filter, payload |-> RawText(""), qos |-> 1,
     retain |-> FALSE]
DisconnectPacket ==
    [type |-> "DISCONNECT", topic |-> "", payload |-> RawText(""), qos |-> 0,
     retain |-> FALSE]

\* The registries the local node may hold: nothing deployed, or one service.
LocalRegistries ==
    { r \in Registries :
        /\ r.node.castle_root # None
        /\ r.node.gateway_port = Num(GatewayPortDefault)
        /\ \A n \in DOMAIN r.deployed :
              /\ n = "my-svc"
              /\ r.deployed[n].description = Str("My service")
              /\ r.deployed[n].behavior = Str("daemon")
              /\ r.deployed[n].stack = Str("python-fastapi")
              /\ r.deployed[n].port = Num(9001)
              /\ r.deployed[n].schedule = None
              /\ r.deployed[n].managed = Bool(TRUE) }

\* publish_registry(registry): the packets it hands to paho, or the exception
\* of the serializer.
PublishRegistry(registry) ==
    LET text == RegistryToJson(registry)
    IN  IF ~text.ok THEN text ELSE Return(<<Publish(RegistryTopic, text.value)>>)

\* _on_connect(rc): the packets it hands to paho, in order, and whether it
\* left by an exception.
OnConnectPackets(rc_ok, registry) ==
    IF ~rc_ok THEN [packets |-> <<>>, raised |-> FALSE]
    ELSE LET online == <<Publish(StatusTopic, RawText("online"))>>
             reg    == PublishRegistry(registry)
         IN  IF ~reg.ok
             THEN [packets |-> online, raised |-> TRUE]
             ELSE [packets |-> online \o reg.value
                               \o <<SubscribePacket("castle/+/registry"),
                                    SubscribePacket("castle/+/status")>>,
                   raised |-> FALSE]

\* start(): connect_async and loop_start.
Start ==
    /\ net_thread = "none"
    /\ stop_pc = "idle"
    /\ net_thread' = "running"
    /\ session' = "connecting"
    /\ UNCHANGED <<local_registry, connected, out_packet, broker_rx, subscribed,
                   stop_pc, connects, last_connect>>
    /\ UNCHANGED <<serVars, meshVars, streamVars, opsVars>>

\* The broker answers the CONNECT; the network thread runs _on_connect(rc).
\* An exception leaving the callback is logged by paho or ends its thread.
ConnAck(rc_ok) ==
    /\ net_thread = "running"
    /\ session = "connecting"
    /\ stop_pc = "idle"
    /\ connects < MaxConnects
    /\ connects' = connects + 1
    /\ LET r == OnConnectPackets(rc_ok, local_registry)
       IN  /\ connected' = rc_ok
           /\ out_packet' = out_packet \o r.packets
           /\ last_connect' = [called |-> TRUE, rc_ok |-> rc_ok,
                               packets |-> r.packets, raised |-> r.raised]
           /\ IF r.raised THEN net_thread' \in {"running", "dead"}
              ELSE net_thread' = net_thread
    /\ session' = IF rc_ok THEN "up" ELSE "connecting"
    /\ UNCHANGED <<local_registry, broker_rx, subscribed, stop_pc>>
    /\ UNCHANGED <<serVars, meshVars, streamVars, opsVars>>

\* The network thread writes the next queued packet to the broker.
NetWrite ==
    /\ net_thread = "running"
    /\ session = "up"
    /\ out_packet # <<>>
    /\ broker_rx' = Append(broker_rx, Head(out_packet))
    /\ out_packet' = Tail(out_packet)
    /\ subscribed' = IF Head(out_packet).type = "SUBSCRIBE"
                     THEN subscribed \cup {Head(out_packet).topic}
                     ELSE subscribed
    /\ UNCHANGED <<local_registry, connected, session, net_thread, stop_pc, connects,
                   last_connect>>
    /\ UNCHANGED <<serVars, meshVars, streamVars, opsVars>>

\* The connection drops: the network thread runs _on_disconnect and will
\* connect again (clean session: the subscriptions are gone).
ConnLost ==
    /\ net_thread = "running"
    /\ session = "up"
    /\ session' = "connecting"
    /\ connected' = FALSE
    /\ subscribed' = {}
    /\ UNCHANGED <<local_registry, net_thread, out_packet, broker_rx, stop_pc, connects,
                   last_connect>>
    /\ UNCHANGED <<serVars, meshVars, streamVars, opsVars>>

\* Mutant: stop() forgets the explicit offline publish.
StopPublishSkipped ==
    /\ net_thread # "none"
    /\ stop_pc = "idle"
    /\ stop_pc' = "published"
    /\ UNCHANGED <<local_registry, connected, session, net_thread, out_packet, broker_rx,
                   subscribed, connects, last_connect>>
    /\ UNCHANGED <<serVars, meshVars, streamVars, opsVars>>

\* stop(), first statement: publish status "offline" (qos 1, retained).
StopPublish ==
    /\ net_thread # "none"
    /\ stop_pc = "idle"
    /\ out_packet' = Append(out_packet, Publish(StatusTopic, RawText("offline")))
    /\ stop_pc' = "published"
    /\ UNCHANGED <<local_registry, connected, session, net_thread, broker_rx,
                   subscribed, connects, last_connect>>
    /\ UNCHANGED <<serVars, meshVars, streamVars, opsVars>>

\* stop(), second statement: loop_stop() joins the network thread, which
\* leaves its loop once nothing is left to write or the connection is gone.
StopLoopStop ==
    /\ stop_pc = "published"
    /\ net_thread = "dead" \/ session # "up" \/ out_packet = <<>>
    /\ net_thread' = "stopped"
    /\ stop_pc' = "loop_stopped"
    /\ UNCHANGED <<local_registry, connected, session, out_packet, broker_rx,
                   subscribed, connects, last_connect>>
    /\ UNCHANGED <<serVars, meshVars, streamVars, opsVars>>

\* stop(), third statement: disconnect().  With a connection, what is still
\* queued is written in order, DISCONNECT last; without one nothing is sent.
StopDisconnect ==
    /\ stop_pc = "loop_stopped"
    /\ IF session = "up"
       THEN /\ broker_rx' = broker_rx \o out_packet \o <<DisconnectPacket>>
            /\ out_packet' = <<>>
       ELSE UNCHANGED <<broker_rx, out_packet>>
    /\ session' = "closed"
    /\ stop_pc' = "done"
    /\ UNCHANGED <<local_registry, connected, net_thread, subscribed, connects,
                   last_connect>>
    /\ UNCHANGED <<serVars, meshVars, streamVars, opsVars>>

----------------------------------------------------------------------------
(* dashboard_api.services: start / stop / restart of a systemd-managed     *)
(* component.  systemd is the environment: it decides how a control        *)
(* command ends and what state the unit is in afterwards.                  *)

UNIT_PREFIX == "castle-"
SELF_NAME   == "dashboard-api"

\* unit = f"{UNIT_PREFIX}{name}.service"
UnitName(name) == UNIT_PREFIX \o name \o ".service"

\* The names config.managed holds, and a name it does not hold.
ManagedNames == {"svc", "worker", SELF_NAME}
RequestNames == ManagedNames \cup {"tool"}

\* The components check_all_health probes: those with expose.http and a
\* health_path.  "worker" is managed but has no health endpoint.
ProbedNames == {"svc", SELF_NAME}

ServiceActions == {"start", "stop", "restart"}

\* What "systemctl --user is-active" prints for a unit.
UnitStates == {"active", "inactive", "failed"}

\* asyncio.sleep(delay) of _deferred_systemctl: delay = 0.5 s.
DeferDelayMs == 500

ClockStepMs == 250
MaxClock    == 1000
MaxRequests == 1

\* _systemctl(action, unit): the ways the command can end.  ok is
\* "returncode == 0"; output is (stdout or stderr or b"").decode().strip();
\* state is the unit's state when the command returns.
SystemctlOutcomes(action, state) ==
    { [ok |-> TRUE, output |-> "", state |-> st] :
        st \in IF action = "stop"
               THEN (IF state = "failed" THEN {"inactive", "failed"} ELSE {"inactive"})
               ELSE {"active", "failed"} }
    \cup { [ok |-> FALSE, output |-> out, state |-> st] :
             out \in {"", "Job for unit failed."},
             st \in {state, "failed"} }

\* _get_unit_status(unit): the stripped stdout of is-active.
GetUnitStatus(us, name) == us[name]

\* check_all_health(config): one HealthStatus per probed component, up or
\* down as its HTTP probe went.
ProbeResults == [ProbedNames -> {"up", "down"}]

\* The statuses _broadcast_health_with_override sends: the entry of
\* override_name (if there is one) is replaced by the systemd truth.
HealthWithOverride(statuses, override_name, override_status) ==
    [id \in DOMAIN statuses |->
        IF id = override_name
        THEN (IF override_status # "active" THEN "down" ELSE "up")
        ELSE statuses[id]]

NoRequest == [pc |-> "idle"]

\* What the handler answered for one request and what it did on the way:
\* whether it ran the control command itself (ran, with ok and output), what
\* is-active printed (polled) and which frame it broadcast (frame: its place
\* in emitted, 0 for none).
Answer(name, action, code, body, did) ==
    [name |-> name, action |-> action, code |-> code, body |-> body] @@ did

DidNothing == [ran |-> FALSE, ok |-> FALSE, output |-> "", polled |-> "", frame |-> 0]

NoAnswer == Answer("", "", 0, EmptyMap, DidNothing)

\* The moment the deferred control call may run.
\* Mutant: the deferred task does not sleep.
DeferredDueAtOnce(t) == t

\* _deferred_systemctl: await asyncio.sleep(delay) before the control call.
DeferredDue(t) == t + DeferDelayMs

ActInit ==
    /\ units \in [ManagedNames -> UnitStates]
    /\ req = NoRequest
    /\ answered = NoAnswer
    /\ handled = 0
    /\ emitted = <<>>
    /\ issued = <<>>
    /\ deferred = <<>>
    /\ clock = 0

ActIdle ==
    /\ units = [n \in ManagedNames |-> "inactive"]
    /\ req = NoRequest
    /\ answered = NoAnswer
    /\ handled = 0
    /\ emitted = <<>>
    /\ issued = <<>>
    /\ deferred = <<>>
    /\ clock = 0


\* POST /services/{name}/{action}: _do_action up to its first await.  A name
\* that is not managed is answered 404; a restart or stop of the API's own
\* unit is handed to a task and answered 202; otherwise the control command
\* is next.
DoActionBegin(name, action) ==
    /\ req.pc = "idle"
    /\ handled < MaxRequests
    /\ IF name \notin ManagedNames
       THEN /\ answered' = Answer(name, action, 404,
                              [detail |-> "'" \o name \o "' is not a managed service"],
                              DidNothing)
            /\ handled' = handled + 1
            /\ UNCHANGED <<req, deferred>>
       ELSE IF name = SELF_NAME /\ action \in {"restart", "stop"}
       THEN /\ deferred' = Append(deferred,
                                  [action |-> action, unit |-> UnitName(name),
                                   created |-> clock, due |-> DeferredDue(clock)])
            /\ answered' = Answer(name, action, 202,
                              [component |-> name, action |-> action,
                               status |-> "accepted"],
                              DidNothing)
            /\ handled' = handled + 1
            /\ UNCHANGED req
       ELSE /\ req' = [pc |-> "systemctl", name |-> name, action |-> action]
            /\ UNCHANGED <<answered, handled, deferred>>
    /\ UNCHANGED <<units, emitted, issued, clock>>
    /\ UNCHANGED <<coordVars, fileVars>>

\* ok, output = await _systemctl(action, unit)
RunSystemctl ==
    /\ req.pc = "systemctl"
    /\ \E o \in SystemctlOutcomes(req.action, units[req.name]) :
          /\ units' = [units EXCEPT ![req.name] = o.state]
          /\ req' = [pc |-> "is_active", name |-> req.name, action |-> req.action,
                     ok |-> o.ok, output |-> o.output]
    /\ issued' = Append(issued, [action |-> req.action, unit |-> UnitName(req.name),
                                 task |-> FALSE, created |-> clock, at |-> clock])
    /\ UNCHANGED <<answered, handled, emitted, deferred, clock>>
    /\ UNCHANGED <<coordVars, fileVars>>

\* unit_status = await _get_unit_status(unit), then "if not ok: raise
\* HTTPException(500, detail=output or f'Failed to {action}')".
PollIsActive ==
    /\ req.pc = "is_active"
    /\ LET unit_status == GetUnitStatus(units, req.name)
       IN  IF ~req.ok
           THEN /\ answered' = Answer(req.name, req.action, 500,
                                  [detail |-> IF req.output # "" THEN req.output
                                              ELSE "Failed to " \o req.action],
                                  [ran |-> TRUE, ok |-> FALSE, output |-> req.output,
                                   polled |-> unit_status, frame |-> 0])
                /\ handled' = handled + 1
                /\ req' = NoRequest
           ELSE /\ req' = [req EXCEPT !.pc = "broadcast"] @@ [polled |-> unit_status]
                /\ UNCHANGED <<answered, handled>>
    /\ UNCHANGED <<units, emitted, issued, deferred, clock>>
    /\ UNCHANGED <<coordVars, fileVars>>

\* await _broadcast_health_with_override(name, unit_status) and the 200
\* response carrying unit_status.
BroadcastAndAnswer ==
    /\ req.pc = "broadcast"
    /\ \E probe \in ProbeResults :
          emitted' = Append(emitted,
                            [event |-> "health",
                             statuses |-> HealthWithOverride(probe, req.name, req.polled)])
    /\ answered' = Answer(req.name, req.action, 200,
                      [component |-> req.name, action |-> req.action,
                       status |-> req.polled],
                      [ran |-> TRUE, ok |-> TRUE, output |-> req.output,
                       polled |-> req.polled, frame |-> Len(emitted) + 1])
    /\ handled' = handled + 1
    /\ req' = NoRequest
    /\ UNCHANGED <<units, issued, deferred, clock>>
    /\ UNCHANGED <<coordVars, fileVars>>

\* A _deferred_systemctl task whose sleep is over runs the control command.
DeferredRun ==
    /\ deferred # <<>>
    /\ Head(deferred).due <= clock
    /\ LET task == Head(deferred)
       IN  /\ \E o \in SystemctlOutcomes(task.action, units[SELF_NAME]) :
                 units' = [units EXCEPT ![SELF_NAME] = o.state]
           /\ issued' = Append(issued, [action |-> task.action, unit |-> task.unit,
                                        task |-> TRUE, created |-> task.created,
                                        at |-> clock])
    /\ deferred' = Tail(deferred)
    /\ UNCHANGED <<req, answered, handled, emitted, clock>>
    /\ UNCHANGED <<coordVars, fileVars>>

\* systemd: a running unit's process dies.
UnitFails(n) ==
    /\ units[n] = "active"
    /\ units' = [units EXCEPT ![n] = "failed"]
    /\ UNCHANGED <<req, answered, handled, emitted, issued, deferred, clock>>
    /\ UNCHANGED <<coordVars, fileVars>>

\* The event loop's time advances.
ClockTick ==
    /\ clock + ClockStepMs <= MaxClock
    /\ clock' = clock + ClockStepMs
    /\ UNCHANGED <<units, req, answered, handled, emitted, issued, deferred>>
    /\ UNCHANGED <<coordVars, fileVars>>

----------------------------------------------------------------------------
(* castle_core.registry: the registry file.  A YAML document is the value  *)
(* it denotes; a file being written holds a prefix of its document: nothing *)
(* after open(path, "w"), then the node section, then some of the entries.  *)

\* The dict save_registry hands to yaml.dump.
RegistryEntryYaml(comp) ==
    LET opt(k) == IF Truthy(comp[k]) THEN k :> comp[k] ELSE EmptyMap
    IN  Dict( ("runner" :> comp.runner) @@ ("run_cmd" :> comp.run_cmd)
              @@ opt("env") @@ opt("description")
              @@ ("behavior" :> comp.behavior)
              @@ opt("stack")
              @@ (IF comp.port # None THEN "port" :> comp.port ELSE EmptyMap)
              @@ opt("health_path") @@ opt("proxy_path") @@ opt("schedule")
              @@ opt("managed") )

RegistryToYaml(registry) ==
    Dict( ("node" :> Dict( ("hostname" :> registry.node.hostname)
                           @@ ("gateway_port" :> registry.node.gateway_port)
                           @@ (IF Truthy(registry.node.castle_root)
                               THEN "castle_root" :> registry.node.castle_root
                               ELSE EmptyMap) ))
          @@ ("deployed" :> Dict([n \in DOMAIN registry.deployed |->
                                    RegistryEntryYaml(registry.deployed[n])])) )

\* The registry file: absent, or a document of which a prefix is on disk.
NoFile == [exists |-> FALSE]
FileHolding(doc, header, flushed) ==
    [exists |-> TRUE, doc |-> doc, header |-> header, flushed |-> flushed]
WholeFile(doc) == FileHolding(doc, TRUE, DOMAIN doc.v["deployed"].v)

\* What is on disk: None for an empty file (yaml.safe_load of no document).
FileContent(f) ==
    IF ~f.header THEN None
    ELSE Dict( ("node" :> f.doc.v["node"])
               @@ ("deployed" :> Dict([n \in f.flushed |-> f.doc.v["deployed"].v[n]])) )

\* The behavior of an entry: the "behavior" key, or the old "category" key.
MigratedBehavior(comp_data) ==
    IF "behavior" \in DOMAIN comp_data.v /\ comp_data.v["behavior"] # None
    THEN comp_data.v["behavior"]
    ELSE LET category == DictGet(comp_data, "category", Str("service")).value
         IN  CASE category = Str("service") -> Str("daemon")
               [] category \in {Str("job"), Str("tool")} -> Str("tool")
               [] OTHER -> category

LoadedComponent(comp_data) ==
    LET get(k, default) == DictGet(comp_data, k, default).value
    IN  [runner      |-> get("runner", Str("command")),
         run_cmd     |-> get("run_cmd", List(<<>>)),
         env         |-> get("env", Dict(EmptyMap)),
         description |-> get("description", None),
         behavior    |-> MigratedBehavior(comp_data),
         stack       |-> get("stack", None),
         port        |-> get("port", None),
         health_path |-> get("health_path", None),
         proxy_path  |-> get("proxy_path", None),
         schedule    |-> get("schedule", None),
         managed     |-> get("managed", Bool(FALSE))]

\* load_registry(path).
LoadRegistry(f) ==
    IF ~f.exists THEN Raise("FileNotFoundError")
    ELSE LET data == FileContent(f)
         IN  IF ~Truthy(data) THEN Raise("ValueError")
             ELSE LET node_data == DictGet(data, "node", Dict(EmptyMap)).value
                      entries_  == DictGet(data, "deployed", Dict(EmptyMap)).value
                  IN  Return(NodeRegistry(
                        NodeConfig(DictGet(node_data, "hostname", Str("")).value,
                                   DictGet(node_data, "castle_root", None).value,
                                   DictGet(node_data, "gateway_port", Num(GatewayPortDefault)).value),
                        [n \in DOMAIN entries_.v |-> LoadedComponent(entries_.v[n])]))

----------------------------------------------------------------------------
(* castle_cli.commands.deploy: compiling the catalog into the registry.    *)

DATA_ROOT == "/data/castle"

ServiceIds == {"svc"}
JobIds     == {"backup"}
\* A name no catalog of the model holds.
AbsentId   == "ghost"
TargetIds  == ServiceIds \cup JobIds \cup {AbsentId}

MaxDeploys == 2

\* The catalog entries of the model: python services exposed over HTTP on
\* one of two ports and proxied by the gateway, and one scheduled job.
ServiceSpecs ==
    { [tool |-> "svc-bin", port |-> p, health_path |-> "/health"] : p \in {9001, 9002} }
JobSpecs == { [tool |-> "backup-bin", schedule |-> "0 2 * * *"] }

Catalogs ==
    { [services |-> s, jobs |-> j] :
        s \in UNION { [S -> ServiceSpecs] : S \in SUBSET ServiceIds },
        j \in UNION { [J -> JobSpecs] : J \in SUBSET JobIds } }

CatalogIds(config) == DOMAIN config.services \cup DOMAIN config.jobs

\* _env_prefix(name) for the names of the model.
EnvPrefix(name) ==
    CASE name = "svc" -> "SVC"
      [] name = "backup" -> "BACKUP"

\* shutil.which(tool): the path of the tool when PATH holds it.
Which(tool, path_has_tools) ==
    IF path_has_tools THEN Str("/usr/local/bin/" \o tool) ELSE None

\* _build_run_cmd for the python runner.
BuildRunCmd(tool, path_has_tools) ==
    LET resolved == Which(tool, path_has_tools)
    IN  List(<<IF Truthy(resolved) THEN resolved ELSE Str(tool)>>)

BuildDeployedService(name, svc, path_has_tools) ==
    DeployedComponent(
        [runner      |-> Str("python"),
         run_cmd     |-> BuildRunCmd(svc.tool, path_has_tools),
         env         |-> Dict( (EnvPrefix(name) \o "_DATA_DIR" :> Str(DATA_ROOT \o "/" \o name))
                               @@ (EnvPrefix(name) \o "_PORT" :> Str(ToString(svc.port))) ),
         description |-> None,
         behavior    |-> Str("daemon"),
         stack       |-> None,
         port        |-> Num(svc.port),
         health_path |-> Str(svc.health_path),
         proxy_path  |-> Str("/" \o name),
         managed     |-> Bool(TRUE)]).value

BuildDeployedJob(name, job, path_has_tools) ==
    DeployedComponent(
        [runner      |-> Str("python"),
         run_cmd     |-> BuildRunCmd(job.tool, path_has_tools),
         env         |-> Dict(EnvPrefix(name) \o "_DATA_DIR" :> Str(DATA_ROOT \o "/" \o name)),
         description |-> None,
         behavior    |-> Str("tool"),
         stack       |-> None,
         schedule    |-> Str(job.schedule),
         managed     |-> Bool(TRUE)]).value

\* The entry run_deploy builds for a name of the catalog.
BuildDeployed(config, name, path_has_tools) ==
    IF name \in DOMAIN config.jobs
    THEN BuildDeployedJob(name, config.jobs[name], path_has_tools)
    ELSE BuildDeployedService(name, config.services[name], path_has_tools)

\* The node of the registry run_deploy builds.
DeployNode == NodeConfig(Str(""), Str("/data/repos/castle"), Num(GatewayPortDefault))

\* Mutant: the existing entries are kept whatever the scope.
ExistingDeployedAlways(target_name, f) ==
    IF f.exists
    THEN LET existing == LoadRegistry(f)
         IN  IF existing.ok THEN existing.value.deployed ELSE EmptyMap
    ELSE EmptyMap

\* The entries run_deploy starts from: those of the existing registry when
\* one component is deployed, none when all are.
ExistingDeployed(target_name, f) ==
    IF target_name # None /\ f.exists
    THEN LET existing == LoadRegistry(f)
         IN  IF existing.ok THEN existing.value.deployed ELSE EmptyMap
    ELSE EmptyMap

\* The names the two loops of run_deploy build.
DeployedNow(config, target_name) ==
    { n \in CatalogIds(config) : target_name = None \/ Str(n) = target_name }

\* The registry run_deploy hands to save_registry.
DeployRegistry(config, target_name, f, path_has_tools) ==
    LET kept  == ExistingDeployed(target_name, f)
        built == [n \in DeployedNow(config, target_name) |->
                    BuildDeployed(config, n, path_has_tools)]
    IN  NodeRegistry(DeployNode, built @@ kept)

DeployIdleProc == [pc |-> "idle"]
NoDeploy       == [done |-> FALSE]
NotLoaded      == [called |-> FALSE]

DeployInit ==
    /\ catalog \in Catalogs
    /\ path_has \in BOOLEAN
    /\ registry_file = NoFile
    /\ deploy = DeployIdleProc
    /\ deploy_result = NoDeploy
    /\ deploys = 0
    /\ reg_read = NotLoaded

DeployIdle ==
    /\ catalog = [services |-> EmptyMap, jobs |-> EmptyMap]
    /\ path_has = FALSE
    /\ registry_file = NoFile
    /\ deploy = DeployIdleProc
    /\ deploy_result = NoDeploy
    /\ deploys = 0
    /\ reg_read = NotLoaded

\* The user edits castle.yaml between two compiles.
EditCatalog(config) ==
    /\ deploy.pc = "idle"
    /\ deploys > 0
    /\ config # catalog
    /\ catalog' = config
    /\ UNCHANGED <<path_has, registry_file, deploy, deploy_result, deploys, reg_read>>
    /\ UNCHANGED <<coordVars, actVars, viewVars, editVars, auxVars>>

\* run_deploy up to the call of save_registry: the catalog is reg_read, the
\* registry is built in memory.
RunDeploy(target_name) ==
    /\ deploy.pc = "idle"
    /\ deploys < MaxDeploys
    /\ deploy' = [pc       |-> "open",
                  target   |-> target_name,
                  config   |-> catalog,
                  before   |-> registry_file,
                  registry |-> DeployRegistry(catalog, target_name, registry_file, path_has),
                  count    |-> Cardinality(DeployedNow(catalog, target_name))]
    /\ deploys' = deploys + 1
    /\ UNCHANGED <<catalog, path_has, registry_file, deploy_result, reg_read>>
    /\ UNCHANGED <<coordVars, actVars, viewVars, editVars, auxVars>>

\* save_registry: open(path, "w") creates or truncates the file.
SaveOpen ==
    /\ deploy.pc = "open"
    /\ registry_file' = FileHolding(RegistryToYaml(deploy.registry), FALSE, {})
    /\ deploy' = [deploy EXCEPT !.pc = "write"]
    /\ UNCHANGED <<catalog, path_has, deploy_result, deploys, reg_read>>
    /\ UNCHANGED <<coordVars, actVars, viewVars, editVars, auxVars>>

\* save_registry: the buffer of the file object is flushed while yaml.dump
\* is still writing.
SaveFlush(names) ==
    /\ deploy.pc = "write"
    /\ registry_file.flushed \subseteq names
    /\ names \subseteq DOMAIN registry_file.doc.v["deployed"].v
    /\ names # DOMAIN registry_file.doc.v["deployed"].v
    /\ ~registry_file.header \/ names # registry_file.flushed
    /\ registry_file' = [registry_file EXCEPT !.header = TRUE, !.flushed = names]
    /\ UNCHANGED <<catalog, path_has, deploy, deploy_result, deploys, reg_read>>
    /\ UNCHANGED <<coordVars, actVars, viewVars, editVars, auxVars>>

\* save_registry: leaving the with block closes the file, which writes
\* what is left of the document.
SaveClose ==
    /\ deploy.pc = "write"
    /\ registry_file' = WholeFile(registry_file.doc)
    /\ deploy' = [deploy EXCEPT !.pc = "saved"]
    /\ UNCHANGED <<catalog, path_has, deploy_result, deploys, reg_read>>
    /\ UNCHANGED <<coordVars, actVars, viewVars, editVars, auxVars>>

\* run_deploy after save_registry: units and Caddyfile are generated, the
\* count is printed, 0 is returned.
DeployReturn ==
    /\ deploy.pc = "saved"
    /\ deploy_result' = [done   |-> TRUE,
                         target |-> deploy.target,
                         config |-> deploy.config,
                         path_has |-> path_has,
                         before |-> deploy.before,
                         after  |-> registry_file,
                         count  |-> deploy.count,
                         outcome |-> Return(0)]
    /\ deploy' = DeployIdleProc
    /\ UNCHANGED <<catalog, path_has, registry_file, deploys, reg_read>>
    /\ UNCHANGED <<coordVars, actVars, viewVars, editVars, auxVars>>

\* Another process (the API, the CLI) calls load_registry(), once.
ReadRegistry ==
    /\ ~reg_read.called
    /\ reg_read' = [called |-> TRUE,
                  result |-> LoadRegistry(registry_file),
                  during |-> deploy.pc,
                  old    |-> IF deploy.pc = "idle" THEN registry_file ELSE deploy.before,
                  new    |-> IF deploy.pc = "idle" THEN registry_file
                             ELSE WholeFile(RegistryToYaml(deploy.registry))]
    /\ UNCHANGED <<catalog, path_has, registry_file, deploy, deploy_result, deploys>>
    /\ UNCHANGED <<coordVars, actVars, viewVars, editVars, auxVars>>

----------------------------------------------------------------------------
(* castle_core.generators.caddyfile and castle_api.routes: the gateway     *)
(* configuration and the views assembled from registry, catalog and mesh.  *)

ViewIds == {"api", "svc"}

\* The order in which a dict of the model is iterated, and the order of
\* str for the proxy paths of the model.
IdOrder   == <<"api", "backup", "svc">>
HostOrder == <<"devbox">>
PathOrder == <<"/api", "/other", "/svc">>

KeysOf(f) ==
    LET present(n) == n \in DOMAIN f IN SelectSeq(IdOrder, present)

\* s with every element replaced by Op of it, and the concatenation of a
\* sequence of sequences.
RECURSIVE Flatten(_)
Flatten(ss) == IF ss = <<>> THEN <<>> ELSE Head(ss) \o Flatten(Tail(ss))

Exposed(proxy_path, port, schedule) ==
    DeployedComponent(
        [runner |-> Str("python"), run_cmd |-> List(<<Str("run")>>),
         proxy_path |-> proxy_path, port |-> port, schedule |-> schedule]).value

\* What is deployed here: proxied services (two of them may ask for the
\* same path), a service proxied without a port, a scheduled job.
LocalEntries ==
    { Exposed(Str("/svc"), Num(9001), None),
      Exposed(Str("/api"), Num(9002), None),
      Exposed(Str("/svc"), None, None),
      Exposed(None, None, Str("0 2 * * *")) }

\* What a peer deploys: a service on a path that may be claimed here too,
\* and one on a path of its own.
RemoteEntries ==
    { Exposed(Str("/svc"), Num(9010), None),
      Exposed(Str("/other"), Num(9011), None) }

LocalRegistriesOfView ==
    { NodeRegistry(NodeConfig(Str(LocalHostname), Str("/data/repos/castle"),
                              Num(GatewayPortDefault)), deployed) :
        deployed \in UNION { [S -> LocalEntries] : S \in SUBSET ViewIds } }

\* mesh_state.all_nodes(): hostname -> RemoteNode.
MeshViews ==
    { EmptyMap } \cup
    { "devbox" :> [registry |-> NodeRegistry(NodeConfig(Str("devbox"), None,
                                                        Num(GatewayPortDefault)), deployed)] :
        deployed \in UNION { [S -> RemoteEntries] : S \in SUBSET ViewIds } }

\* The catalog as the views read it: programs, services and jobs by id; a
\* program is a tool or has no install and build section.  NoCatalog when
\* the registry names no castle_root or castle.yaml is not there.
NoCatalog == [available |-> FALSE]
CatalogPort == 19000
ViewCatalogs ==
    { NoCatalog } \cup
    { [available |-> TRUE, programs |-> p, services |-> s, jobs |-> j] :
        p \in UNION { [S -> [tool : BOOLEAN]] : S \in SUBSET {"svc"} },
        s \in { [n \in S |-> [port |-> CatalogPort]] : S \in SUBSET ViewIds },
        j \in { [n \in S |-> [schedule |-> "0 2 * * *"]] : S \in SUBSET {"backup"} } }

\* --- generate_caddyfile_from_registry ---

HandlePath(path, host, port) ==
    [directive |-> "handle_path", path |-> path, upstream |-> <<host, port>>]

\* The blocks of the site: one handle_path per deployed component with a
\* proxy path and a port, then the static site.
GenerateCaddyfileFromRegistry(registry) ==
    LET proxied(n) == /\ n \in DOMAIN registry.deployed
                      /\ Truthy(registry.deployed[n].proxy_path)
                      /\ Truthy(registry.deployed[n].port)
        names == SelectSeq(IdOrder, proxied)
    IN  [site   |-> registry.node.gateway_port.v,
         blocks |-> [i \in 1..Len(names) |->
                        HandlePath(registry.deployed[names[i]].proxy_path.v, "localhost",
                                   registry.deployed[names[i]].port.v)]
                    \o <<[directive |-> "handle"]>>]

\* --- get_gateway ---

GatewayRoute(path, target_port, component, node) ==
    [path |-> path, target_port |-> target_port, component |-> component, node |-> node]

\* Mutant: a path already taken is routed again.
RoutesOfAnyPath(registry, node, taken) ==
    LET routed(n) == /\ n \in DOMAIN registry.deployed
                     /\ Truthy(registry.deployed[n].proxy_path)
                     /\ Truthy(registry.deployed[n].port)
        names == SelectSeq(IdOrder, routed)
    IN  [i \in 1..Len(names) |->
            GatewayRoute(registry.deployed[names[i]].proxy_path.v,
                         registry.deployed[names[i]].port.v, names[i], node)]

\* The routes of the components of one registry that have a proxy path and
\* a port and whose path is not in taken.
RoutesOf(registry, node, taken) ==
    LET routed(n) == /\ n \in DOMAIN registry.deployed
                     /\ Truthy(registry.deployed[n].proxy_path)
                     /\ Truthy(registry.deployed[n].port)
                     /\ registry.deployed[n].proxy_path.v \notin taken
        names == SelectSeq(IdOrder, routed)
    IN  [i \in 1..Len(names) |->
            GatewayRoute(registry.deployed[names[i]].proxy_path.v,
                         registry.deployed[names[i]].port.v, names[i], node)]

\* routes.sort(key=lambda r: r.path): a stable sort.
SortByPath(routes) ==
    Flatten([i \in 1..Len(PathOrder) |->
                LET at(r) == r.path = PathOrder[i] IN SelectSeq(routes, at)])

GetGatewayRoutes(registry, mesh) ==
    LET local == RoutesOf(registry, registry.node.hostname.v, {})
        local_paths == { local[i].path : i \in 1..Len(local) }
        hosts == LET known(h) == h \in DOMAIN mesh IN SelectSeq(HostOrder, known)
        remote == Flatten([i \in 1..Len(hosts) |->
                              RoutesOf(mesh[hosts[i]].registry, hosts[i], local_paths)])
    IN  SortByPath(local \o remote)

\* --- list_components and list_services ---

\* One item of a view: the fields that tell the entries of an id apart, and
\* the source the item was built from.
Summary(id, category, port, node, origin) ==
    [id |-> id, category |-> category, port |-> port, node |-> node, origin |-> origin]

SummaryFromDeployed(name, deployed, node, origin) ==
    Summary(name, IF Truthy(deployed.schedule) THEN "job" ELSE "service",
            deployed.port, node, origin)

\* The items for the remote components whose name is not in seen; a name
\* listed for one host is seen for the next.
RECURSIVE RemoteSummaries(_, _, _, _)
RemoteSummaries(mesh, hosts, seen, services_only) ==
    IF hosts = <<>> THEN <<>>
    ELSE LET deployed == mesh[Head(hosts)].registry.deployed
             listed(n) == /\ n \in DOMAIN deployed
                          /\ n \notin seen
                          /\ services_only => ~Truthy(deployed[n].schedule)
             names == SelectSeq(IdOrder, listed)
         IN  [i \in 1..Len(names) |->
                 SummaryFromDeployed(names[i], deployed[names[i]], Head(hosts), "mesh")]
             \o RemoteSummaries(mesh, Tail(hosts),
                                seen \cup { names[i] : i \in 1..Len(names) }, services_only)

MeshHosts(mesh) ==
    LET known(h) == h \in DOMAIN mesh IN SelectSeq(HostOrder, known)

\* The programs list_components appends: every tool, and every other
\* program that a service or job of the catalog backs by name.
ListedPrograms(config) ==
    LET listed(n) == /\ n \in DOMAIN config.programs
                     /\ \/ config.programs[n].tool
                        \/ n \in DOMAIN config.services
                        \/ n \in DOMAIN config.jobs
    IN  SelectSeq(IdOrder, listed)

\* Mutant: a service of the catalog is listed whether deployed or not.
CatalogServicesAll(config, seen) == KeysOf(config.services)

\* The services of the catalog that are not deployed here.
CatalogServices(config, seen) ==
    LET fresh(n) == n \in DOMAIN config.services /\ n \notin seen
    IN  SelectSeq(IdOrder, fresh)

ListComponents(registry, config, mesh, include_remote) ==
    LET hostname == registry.node.hostname.v
        names    == KeysOf(registry.deployed)
        local    == [i \in 1..Len(names) |->
                        SummaryFromDeployed(names[i], registry.deployed[names[i]],
                                            hostname, "registry")]
        seen1    == DOMAIN registry.deployed
        services == IF config.available THEN CatalogServices(config, seen1) ELSE <<>>
        seen2    == seen1 \cup { services[i] : i \in 1..Len(services) }
        jobs     == IF config.available
                    THEN LET fresh(n) == n \in DOMAIN config.jobs /\ n \notin seen2
                         IN  SelectSeq(IdOrder, fresh)
                    ELSE <<>>
        seen3    == seen2 \cup { jobs[i] : i \in 1..Len(jobs) }
        programs == IF config.available THEN ListedPrograms(config) ELSE <<>>
    IN  local
        \o [i \in 1..Len(services) |->
               Summary(services[i], "service", Num(config.services[services[i]].port),
                       hostname, "catalog")]
        \o [i \in 1..Len(jobs) |-> Summary(jobs[i], "job", None, hostname, "catalog")]
        \o [i \in 1..Len(programs) |->
               Summary(programs[i], "program", None, hostname, "catalog")]
        \o (IF include_remote THEN RemoteSummaries(mesh, MeshHosts(mesh), seen3, FALSE)
            ELSE <<>>)

ListServices(registry, config, mesh, include_remote) ==
    LET hostname == registry.node.hostname.v
        daemon(n) == n \in DOMAIN registry.deployed /\ ~Truthy(registry.deployed[n].schedule)
        names    == SelectSeq(IdOrder, daemon)
        local    == [i \in 1..Len(names) |->
                        SummaryFromDeployed(names[i], registry.deployed[names[i]],
                                            hostname, "registry")]
        seen1    == { names[i] : i \in 1..Len(names) }
        services == IF config.available THEN CatalogServices(config, seen1) ELSE <<>>
        seen2    == seen1 \cup { services[i] : i \in 1..Len(services) }
    IN  local
        \o [i \in 1..Len(services) |->
               Summary(services[i], "service", Num(config.services[services[i]].port),
                       hostname, "catalog")]
        \o (IF include_remote THEN RemoteSummaries(mesh, MeshHosts(mesh), seen2, TRUE)
            ELSE <<>>)

\* --- the endpoints, each called on any registry, catalog and mesh view ---

NoView == [endpoint |-> "none"]

ViewInit ==
    /\ view_registry \in LocalRegistriesOfView
    /\ view_catalog \in ViewCatalogs
    /\ view_mesh \in MeshViews
    /\ view_out = NoView

ViewIdle ==
    /\ view_registry = NodeRegistry(NodeConfig(Str(LocalHostname), Str("/data/repos/castle"),
                                               Num(GatewayPortDefault)), EmptyMap)
    /\ view_catalog = NoCatalog
    /\ view_mesh = EmptyMap
    /\ view_out = NoView

\* run_deploy writes the Caddyfile of the registry.
WriteCaddyfile ==
    /\ view_out = NoView
    /\ view_out' = [endpoint |-> "caddyfile",
                    caddyfile |-> GenerateCaddyfileFromRegistry(view_registry)]
    /\ UNCHANGED <<view_registry, view_catalog, view_mesh>>
    /\ UNCHANGED <<coordVars, actVars, deployVars, editVars, auxVars>>

\* GET /gateway.
GetGateway ==
    /\ view_out = NoView
    /\ view_out' = [endpoint |-> "gateway",
                    routes |-> GetGatewayRoutes(view_registry, view_mesh)]
    /\ UNCHANGED <<view_registry, view_catalog, view_mesh>>
    /\ UNCHANGED <<coordVars, actVars, deployVars, editVars, auxVars>>

\* GET /components.
GetComponents(include_remote) ==
    /\ view_out = NoView
    /\ view_out' = [endpoint |-> "components", include_remote |-> include_remote,
                    items |-> ListComponents(view_registry, view_catalog, view_mesh,
                                             include_remote)]
    /\ UNCHANGED <<view_registry, view_catalog, view_mesh>>
    /\ UNCHANGED <<coordVars, actVars, deployVars, editVars, auxVars>>

\* GET /services.
GetServices(include_remote) ==
    /\ view_out = NoView
    /\ view_out' = [endpoint |-> "services", include_remote |-> include_remote,
                    items |-> ListServices(view_registry, view_catalog, view_mesh,
                                           include_remote)]
    /\ UNCHANGED <<view_registry, view_catalog, view_mesh>>
    /\ UNCHANGED <<coordVars, actVars, deployVars, editVars, auxVars>>

----------------------------------------------------------------------------
(* castle_api.config_editor and castle_core.config.save_config: saving the *)
(* catalog.  The content of castle.yaml is the services it declares, and    *)
(* whether the text is the user's or the output of yaml.dump.               *)

EditIds   == {"svc", "web"}
EditPorts == {9001, 9002}

CatalogText(form, services) == [form |-> form, services |-> services]

ServiceMaps == UNION { [S -> EditPorts] : S \in SUBSET EditIds }

\* Texts a client may PUT: catalogs as typed, and a text that fails
\* validation (a service without a run section).
InvalidText == [form |-> "invalid"]
RequestTexts == { CatalogText("typed", s) : s \in ServiceMaps } \cup {InvalidText}

CatalogTexts == { CatalogText(f, s) : f \in {"typed", "dumped"}, s \in ServiceMaps }

NoBackup == [exists |-> FALSE]
BackupOf(text) == [exists |-> TRUE, text |-> text]

NoSave == [op |-> "none", saved |-> FALSE]
Saved(op, before) == [op |-> op, saved |-> TRUE, before |-> before]
Refused(op, code) == [op |-> op, saved |-> FALSE, code |-> code]

\* save_config(config): castle.yaml is opened for writing and the catalog
\* is dumped into it.
SaveConfig(services) == CatalogText("dumped", services)

EditInit ==
    /\ catalog_file \in CatalogTexts
    /\ backup_file = NoBackup
    /\ last_save = NoSave

EditIdle ==
    /\ catalog_file = CatalogText("typed", EmptyMap)
    /\ backup_file = NoBackup
    /\ last_save = NoSave

\* PUT /config: validate, copy castle.yaml to castle.yaml.bak, write the
\* request's text.
SaveYaml(text) ==
    /\ IF text = InvalidText
       THEN /\ last_save' = Refused("save_yaml", 422)
            /\ UNCHANGED <<catalog_file, backup_file>>
       ELSE /\ backup_file' = BackupOf(catalog_file)
            /\ catalog_file' = text
            /\ last_save' = Saved("save_yaml", catalog_file)
    /\ UNCHANGED <<coordVars, actVars, deployVars, viewVars, auxVars>>

\* PUT /config/services/{name}: the catalog is loaded, the service is set
\* and save_config writes the catalog.
SaveService(name, port) ==
    /\ catalog_file' = SaveConfig((name :> port) @@ catalog_file.services)
    /\ last_save' = Saved("save_service", catalog_file)
    /\ UNCHANGED backup_file
    /\ UNCHANGED <<coordVars, actVars, deployVars, viewVars, auxVars>>

\* DELETE /config/services/{name}.
DeleteService(name) ==
    /\ IF name \notin DOMAIN catalog_file.services
       THEN /\ last_save' = Refused("delete_service", 404)
            /\ UNCHANGED catalog_file
       ELSE /\ catalog_file' = SaveConfig([n \in DOMAIN catalog_file.services \ {name} |->
                                              catalog_file.services[n]])
            /\ last_save' = Saved("delete_service", catalog_file)
    /\ UNCHANGED backup_file
    /\ UNCHANGED <<coordVars, actVars, deployVars, viewVars, auxVars>>

----------------------------------------------------------------------------
(* dashboard_api.bus: the subscription table of the event bus and its HTTP *)
(* fan-out.  One publish is in flight at a time; its deliveries run as     *)
(* separate tasks, between which other requests are served.                *)

BusTopics    == {"test.event", "other.event"}
CallbackUrls == {"http://localhost:9999/hook", "http://localhost:9998/hook"}
Labels       == {"", "test-service"}

\* The labels each callback is subscribed under.
LabelsOf(callback_url) ==
    IF callback_url = "http://localhost:9999/hook" THEN Labels ELSE {""}

\* The final status codes a callback answers with, and a POST that raises
\* (connection refused, timeout).
StatusCodes == {101, 200, 500}
Answers ==
    { [kind |-> "response", status |-> s] : s \in StatusCodes }
    \cup { [kind |-> "error", status |-> 0] }
NoPost == [kind |-> "no_client", status |-> 0]

Subscription(topic, callback_url, subscriber) ==
    [topic |-> topic, callback_url |-> callback_url, subscriber |-> subscriber]

EmptyTable == [t \in {} |-> <<>>]

\* A list of the table holds a subscription with this callback_url.
HasCallback(subs, callback_url) ==
    \E i \in 1..Len(subs) : subs[i].callback_url = callback_url

\* Mutant: subscribe appends without looking for the callback_url.
SubscribeTableAppends(table, topic, callback_url, subscriber) ==
    LET present == IF topic \in DOMAIN table THEN table
                   ELSE (topic :> <<>>) @@ table
    IN  [present EXCEPT
            ![topic] = Append(@, Subscription(topic, callback_url, subscriber))]

\* EventBus.subscribe: the table afterwards.
SubscribeTable(table, topic, callback_url, subscriber) ==
    LET present == IF topic \in DOMAIN table THEN table
                   ELSE (topic :> <<>>) @@ table
    IN  IF HasCallback(present[topic], callback_url) THEN present
        ELSE [present EXCEPT
                 ![topic] = Append(@, Subscription(topic, callback_url, subscriber))]

\* EventBus.unsubscribe: the table afterwards and the value returned.
UnsubscribeTable(table, topic, callback_url) ==
    IF topic \notin DOMAIN table THEN [table |-> table, removed |-> FALSE]
    ELSE LET kept == SelectSeq(table[topic],
                               LAMBDA s : s.callback_url # callback_url)
         IN  [table   |-> IF kept = <<>>
                          THEN [t \in DOMAIN table \ {topic} |-> table[t]]
                          ELSE [table EXCEPT ![topic] = kept],
              removed |-> Len(kept) < Len(table[topic])]

\* What _deliver returns for the answer to its POST.
DeliverResult(answer) ==
    /\ answer.kind = "response"
    /\ answer.status < 300

NoPublish == [pc |-> "idle"]
NoBusCall == [op |-> "none"]

\* The labels the table holds for a pair (topic, callback_url).
Stored(table, topic, callback_url) ==
    IF topic \notin DOMAIN table THEN {}
    ELSE { table[topic][i].subscriber :
             i \in { k \in 1..Len(table[topic]) :
                       table[topic][k].callback_url = callback_url } }

\* A subscribe or unsubscribe call: whether the pair was present, whether it
\* was present under another label than the one given, and whether the call
\* changed the table.
BusCall(op, present, relabel, changed) ==
    [op |-> op, present |-> present, relabel |-> relabel, changed |-> changed]

BusIdle ==
    /\ subscriptions = EmptyTable
    /\ bus_client = FALSE
    /\ publish = NoPublish
    /\ bus_last = NoBusCall

\* EventBus.start(): the shared httpx client is created.
BusStart ==
    /\ ~bus_client
    /\ bus_client' = TRUE
    /\ UNCHANGED <<subscriptions, publish, bus_last>>
    /\ UNCHANGED busRest

\* EventBus.stop(): the client is closed and forgotten.
BusStop ==
    /\ bus_client
    /\ bus_client' = FALSE
    /\ UNCHANGED <<subscriptions, publish, bus_last>>
    /\ UNCHANGED busRest

\* POST /subscribe
BusSubscribe(topic, callback_url, subscriber) ==
    /\ subscriptions' = SubscribeTable(subscriptions, topic, callback_url, subscriber)
    /\ bus_last' = BusCall("subscribe",
                            Stored(subscriptions, topic, callback_url) # {},
                            Stored(subscriptions, topic, callback_url) \ {subscriber} # {},
                            subscriptions' # subscriptions)
    /\ UNCHANGED <<bus_client, publish>>
    /\ UNCHANGED busRest

\* POST /unsubscribe
BusUnsubscribe(topic, callback_url) ==
    /\ subscriptions' = UnsubscribeTable(subscriptions, topic, callback_url).table
    /\ bus_last' = BusCall("unsubscribe",
                            Stored(subscriptions, topic, callback_url) # {}, FALSE,
                            subscriptions' # subscriptions)
    /\ UNCHANGED <<bus_client, publish>>
    /\ UNCHANGED busRest

\* EventBus.publish up to its await: no subscribers, 0 at once; otherwise
\* one _deliver task per subscription of the topic as it is now.
BusPublish(topic) ==
    /\ publish.pc # "gathering"
    /\ LET subs == IF topic \in DOMAIN subscriptions
                          THEN subscriptions[topic] ELSE <<>>
       IN  publish' =
             IF subs = <<>>
             THEN [pc |-> "returned", topic |-> topic, tasks |-> <<>>,
                   answers |-> <<>>, results |-> <<>>, posts |-> <<>>,
                   delivered |-> 0]
             ELSE [pc |-> "gathering", topic |-> topic, tasks |-> subs,
                   answers |-> [i \in 1..Len(subs) |-> NoPost],
                   results |-> [i \in 1..Len(subs) |-> "pending"],
                   posts   |-> [i \in 1..Len(subs) |-> 0],
                   delivered |-> 0]
    /\ UNCHANGED <<subscriptions, bus_client, bus_last>>
    /\ UNCHANGED busRest

\* EventBus._deliver for task i: without a client nothing is sent; otherwise
\* one POST, whose answer decides the result.
BusDeliver(i, answer) ==
    /\ publish.pc = "gathering"
    /\ i \in 1..Len(publish.tasks)
    /\ publish.results[i] = "pending"
    /\ publish' =
         IF ~bus_client
         THEN [publish EXCEPT !.results[i] = "False"]
         ELSE [publish EXCEPT
                  !.answers[i] = answer,
                  !.posts[i]   = @ + 1,
                  !.results[i] = IF DeliverResult(answer) THEN "True" ELSE "False"]
    /\ UNCHANGED <<subscriptions, bus_client, bus_last>>
    /\ UNCHANGED busRest

\* EventBus.publish after gather: the results that are True are counted.
BusPublishReturn ==
    /\ publish.pc = "gathering"
    /\ \A i \in 1..Len(publish.tasks) : publish.results[i] # "pending"
    /\ publish' =
         [publish EXCEPT
            !.pc = "returned",
            !.delivered = Cardinality({ i \in 1..Len(publish.tasks) :
                                          publish.results[i] = "True" })]
    /\ UNCHANGED <<subscriptions, bus_client, bus_last>>
    /\ UNCHANGED busRest

----------------------------------------------------------------------------
(* castle create, load_config and PUT /config/services/{name}: the ways a  *)
(* catalog comes to be accepted.  An expose section is the set of its      *)
(* internal ports: empty without expose.http, one port with it.            *)

CreateNames  == {"api", "web"}
CreatePorts  == {9000, 9001, 9002}
GatewayPorts == {9000, 9001}

\* "Find the next available port starting from 9001".
FirstPort == 9001

NoExpose == {}
ExposeArgs == {NoExpose} \cup { {p} : p \in CreatePorts }

\* A components: entry as load_config parses it (ComponentSpec has no expose
\* field) and as run_create builds it (ComponentManifest).
ComponentSpec == [model |-> "ComponentSpec", expose |-> NoExpose]
ComponentManifest(expose) == [model |-> "ComponentManifest", expose |-> expose]

CastleConfig(gateway, components, services) ==
    [gateway |-> gateway, components |-> components, services |-> services]

\* The castle.yaml documents that pass the validation of every entry.
CatalogDocs ==
    { CastleConfig(g, [n \in C |-> ComponentSpec], s) :
        g \in GatewayPorts,
        C \in SUBSET CreateNames,
        s \in UNION { [S -> { {p} : p \in CreatePorts }] : S \in SUBSET CreateNames } }

\* load_config: gateway, components, services (and jobs) are parsed entry by
\* entry; nothing compares one entry with another.
LoadConfig(doc) == Return(doc)

\* next_available_port(config): manifest.expose is read off every entry of
\* config.components (AttributeError on a ComponentSpec); the first port
\* from 9001 that none of them nor the gateway uses.
NextAvailablePort(cfg) ==
    IF \E n \in DOMAIN cfg.components : cfg.components[n].model = "ComponentSpec"
    THEN Raise("AttributeError")
    ELSE LET used_ports == UNION { cfg.components[n].expose : n \in DOMAIN cfg.components }
                           \cup {cfg.gateway}
         IN  Return(CHOOSE port \in FirstPort..(FirstPort + Cardinality(used_ports)) :
                        /\ port \notin used_ports
                        /\ \A q \in FirstPort..(port - 1) : q \in used_ports)

\* run_create(args) for a project directory that does not exist yet: the
\* exit code, or the exception that ends the command, and the catalog saved.
RunCreateResult(cfg, name, proj_type, port_arg) ==
    IF name \in DOMAIN cfg.components
    THEN [code |-> Return(1), config |-> cfg]
    ELSE LET auto == proj_type = "service" /\ port_arg = NoExpose
             port == IF auto THEN NextAvailablePort(cfg) ELSE Return(0)
         IN  IF ~port.ok THEN [code |-> port, config |-> cfg]
             ELSE LET chosen   == IF auto THEN {port.value} ELSE port_arg
                      manifest == IF proj_type = "service"
                                  THEN ComponentManifest(chosen)
                                  ELSE ComponentManifest(NoExpose)
                  IN  [code   |-> Return(0),
                       config |-> [cfg EXCEPT !.components =
                                      (name :> manifest) @@ cfg.components]]

NoCreate == [op |-> "none", accepted |-> FALSE, auto |-> FALSE]

CreateIdle ==
    /\ create_config = CastleConfig(GatewayPortDefault, EmptyMap, EmptyMap)
    /\ create_last = NoCreate

\* castle.yaml as edited by hand is loaded.
CreateLoad(doc) ==
    /\ LoadConfig(doc).ok
    /\ create_config' = LoadConfig(doc).value
    /\ create_last' = [op |-> "load", accepted |-> TRUE, auto |-> FALSE]
    /\ UNCHANGED createRest

\* castle create NAME --type TYPE [--port PORT]
RunCreate(name, proj_type, port_arg) ==
    LET r == RunCreateResult(create_config, name, proj_type, port_arg)
    IN  /\ create_config' = r.config
        /\ create_last' = [op       |-> "create",
                           accepted |-> r.code = Return(0),
                           auto     |-> proj_type = "service" /\ port_arg = NoExpose]
        /\ UNCHANGED createRest

\* PUT /config/services/{name}: the service is validated by itself, stored
\* and saved.
PutService(name, port) ==
    /\ create_config' = [create_config EXCEPT !.services =
                            (name :> {port}) @@ create_config.services]
    /\ create_last' = [op |-> "save", accepted |-> TRUE, auto |-> FALSE]
    /\ UNCHANGED createRest

----------------------------------------------------------------------------
(* castle_core.generators.systemd: the schedule of a timer unit.  A cron   *)
(* expression is held as cron.strip().split() leaves it: a sequence of     *)
(* fields, each field a sequence of characters.                            *)

Digits == {"0", "1", "2", "3", "4", "5", "6", "7", "8", "9"}

DigitValue(c) ==
    CASE c = "0" -> 0 [] c = "1" -> 1 [] c = "2" -> 2 [] c = "3" -> 3
      [] c = "4" -> 4 [] c = "5" -> 5 [] c = "6" -> 6 [] c = "7" -> 7
      [] c = "8" -> 8 [] c = "9" -> 9

Star == <<"*">>

RECURSIVE Join(_)
\* "".join(chars)
Join(chars) == IF chars = <<>> THEN "" ELSE Head(chars) \o Join(Tail(chars))

\* field.startswith("*/")
StartsWithStarSlash(field) ==
    /\ Len(field) >= 2
    /\ field[1] = "*"
    /\ field[2] = "/"

\* field.zfill(2), for a field without a sign.
Zfill2(field) ==
    IF Len(field) >= 2 THEN field
    ELSE IF Len(field) = 1 THEN <<"0">> \o field
    ELSE <<"0", "0">>

RECURSIVE DecimalValue(_)
DecimalValue(field) ==
    IF field = <<>> THEN 0
    ELSE 10 * DecimalValue(SubSeq(field, 1, Len(field) - 1))
         + DigitValue(field[Len(field)])

\* int(text) for a text without sign or blanks: ValueError unless it is a
\* non-empty run of digits.
ParseInt(field) ==
    IF field # <<>> /\ \A i \in 1..Len(field) : field[i] \in Digits
    THEN Return(DecimalValue(field))
    ELSE Raise("ValueError")

\* The "*/N * * * *" test shared by both conversions.
EveryNMinutes(parts) ==
    /\ StartsWithStarSlash(parts[1])
    /\ parts[2] = Star /\ parts[3] = Star /\ parts[4] = Star /\ parts[5] = Star

\* cron_to_oncalendar(cron): the OnCalendar expression, "" for none.
CronToOnCalendar(parts) ==
    IF Len(parts) # 5 THEN ""
    ELSE IF EveryNMinutes(parts) THEN ""
    ELSE IF parts[3] = Star /\ parts[4] = Star /\ parts[5] = Star
    THEN LET h == IF parts[2] # Star THEN Zfill2(parts[2]) ELSE Star
             m == IF parts[1] # Star THEN Zfill2(parts[1]) ELSE Star
         IN  "*-*-* " \o Join(h) \o ":" \o Join(m) \o ":00"
    ELSE ""

\* cron_to_interval_sec(cron): the seconds of a */N pattern, or None.
CronToIntervalSec(parts) ==
    IF Len(parts) # 5 THEN None
    ELSE IF EveryNMinutes(parts)
    THEN LET n == ParseInt(SubSeq(parts[1], 3, Len(parts[1])))
         IN  IF n.ok THEN Num(n.value * 60) ELSE None
    ELSE None

\* generate_timer: the lines it puts under [Timer] before Persistent=false.
TimerLines(parts) ==
    LET on_calendar  == CronToOnCalendar(parts)
        interval_sec == CronToIntervalSec(parts)
    IN  IF on_calendar # "" THEN "OnCalendar=" \o on_calendar \o "\n"
        ELSE IF interval_sec # None /\ interval_sec.v # 0
        THEN "OnBootSec=60\nOnUnitActiveSec=" \o ToString(interval_sec.v) \o "s\n"
        ELSE "OnBootSec=60\nOnUnitActiveSec=300\n"

\* The schedules the model draws from.
MinuteFields ==
    { <<"0">>, <<"5">>, <<"3", "0">>, Star, <<"*", "/", "5">>,
      <<"*", "/", "1", "5">>, <<"*", "/", "0">>, <<"*", "/", "x">>,
      <<"0", ",", "3", "0">> }
HourFields  == { <<"2">>, <<"1", "4">>, Star, <<"*", "/", "2">> }
DayFields   == { Star, <<"1">> }
Schedules ==
    { <<m, h, dom, Star, dow>> :
        m \in MinuteFields, h \in HourFields, dom \in DayFields, dow \in DayFields }
    \cup { <<<<"0">>, <<"2">>, Star, Star>>,
           <<<<"0">>, <<"0">>, <<"2">>, Star, Star, Star>> }

TimerInit ==
    /\ timer_cron \in Schedules
    /\ timer_lines = NotCalled

TimerIdle ==
    /\ timer_cron = <<<<"0">>, <<"2">>, Star, Star, Star>>
    /\ timer_lines = NotCalled

\* generate_timer(name, manifest) for a manifest whose schedule trigger has
\* the cron expression timer_cron.
GenerateTimer ==
    /\ ~timer_lines.called
    /\ timer_lines' = Called(TimerLines(timer_cron))
    /\ UNCHANGED timer_cron
    /\ UNCHANGED timerRest

----------------------------------------------------------------------------
(* devbox_connect.tunnel: the TunnelManager for one host with two tunnels. *)
(* Each thread moves between its blocking calls; the waits themselves      *)
(* (sleep, accept timeout, backoff) take no step.                          *)

Tunnels == {"web", "db"}

MaxReconnectThreads == 3

\* _schedule_reconnect: nothing once the manager's stop event is set,
\* otherwise one more thread running _reconnect_loop.
ScheduleReconnect(threads, stop_set) ==
    IF stop_set THEN threads ELSE Append(threads, "waiting")

\* Whether a call of _schedule_reconnect fits the model's thread bound.
CanSchedule(stop_set) ==
    stop_set \/ Len(reconnect_threads) < MaxReconnectThreads

\* The reconnect loops that have not returned.
ActiveReconnects ==
    { i \in 1..Len(reconnect_threads) : reconnect_threads[i] # "returned" }

\* What happened since stop() was called.
NothingSinceStop == [connected |-> FALSE, spawned |-> FALSE]

TunnelIdle ==
    /\ mgr_started = FALSE
    /\ mgr_stop = FALSE
    /\ host_stop = FALSE
    /\ ssh_client = "none"
    /\ transport_active = FALSE
    /\ accept_loop = [t \in Tunnels |-> "none"]
    /\ reconnect_threads = <<>>
    /\ since_stop = NothingSinceStop

\* _connect_host as run by the caller: on success the client and transport
\* are kept, the host's stop event is cleared and every tunnel gets its
\* accept loop; on an exception a reconnect is scheduled.
ConnectHost(ok, threads) ==
    /\ IF ok
       THEN /\ ssh_client' = "connected"
            /\ transport_active' = TRUE
            /\ host_stop' = FALSE
            /\ accept_loop' = [t \in Tunnels |-> "running"]
            /\ reconnect_threads' = threads
       ELSE /\ CanSchedule(mgr_stop)
            /\ reconnect_threads' = ScheduleReconnect(threads, mgr_stop)
            /\ UNCHANGED <<ssh_client, transport_active, host_stop, accept_loop>>
    /\ since_stop' =
         [connected |-> since_stop.connected \/ (mgr_stop /\ ok),
          spawned   |-> since_stop.spawned
                        \/ (mgr_stop /\ reconnect_threads' # threads)]

\* TunnelManager.start()
ManagerStart(ok) ==
    /\ ~mgr_started
    /\ mgr_started' = TRUE
    /\ ConnectHost(ok, reconnect_threads)
    /\ UNCHANGED mgr_stop
    /\ UNCHANGED tunnelRest

\* The SSH connection dies under a connected host.
LinkLost ==
    /\ ssh_client = "connected"
    /\ transport_active
    /\ transport_active' = FALSE
    /\ UNCHANGED <<mgr_started, mgr_stop, host_stop, ssh_client, accept_loop,
                   reconnect_threads, since_stop>>
    /\ UNCHANGED tunnelRest

\* _accept_loop leaves its while loop: a stop event is set, its server
\* socket was closed, or a local client arrived and the transport is gone.
AcceptExit(t) ==
    /\ accept_loop[t] = "running"
    /\ host_stop \/ mgr_stop \/ ~transport_active
    /\ accept_loop' = [accept_loop EXCEPT ![t] = "leaving"]
    /\ UNCHANGED <<mgr_started, mgr_stop, host_stop, ssh_client, transport_active,
                   reconnect_threads, since_stop>>
    /\ UNCHANGED tunnelRest

\* _accept_loop after the loop: "Connection lost, trigger reconnect".
AcceptTrailer(t) ==
    /\ accept_loop[t] = "leaving"
    /\ CanSchedule(mgr_stop)
    /\ accept_loop' = [accept_loop EXCEPT ![t] = "none"]
    /\ reconnect_threads' = ScheduleReconnect(reconnect_threads, mgr_stop)
    /\ since_stop' = [since_stop EXCEPT
                         !.spawned = @ \/ (mgr_stop /\ reconnect_threads' # reconnect_threads)]
    /\ UNCHANGED <<mgr_started, mgr_stop, host_stop, ssh_client, transport_active>>
    /\ UNCHANGED tunnelRest

\* _reconnect_loop in its wait: a stop check finds the event set and the
\* thread returns.
ReconnectSeesStop(i) ==
    /\ i \in 1..Len(reconnect_threads)
    /\ reconnect_threads[i] = "waiting"
    /\ mgr_stop
    /\ reconnect_threads' = [reconnect_threads EXCEPT ![i] = "returned"]
    /\ UNCHANGED <<mgr_started, mgr_stop, host_stop, ssh_client, transport_active,
                   accept_loop, since_stop>>
    /\ UNCHANGED tunnelRest

\* _reconnect_loop passes the last stop check of its wait and goes into
\* the last sleep(1).
ReconnectWaitOver(i) ==
    /\ i \in 1..Len(reconnect_threads)
    /\ reconnect_threads[i] = "waiting"
    /\ ~mgr_stop
    /\ reconnect_threads' = [reconnect_threads EXCEPT ![i] = "slept"]
    /\ UNCHANGED <<mgr_started, mgr_stop, host_stop, ssh_client, transport_active,
                   accept_loop, since_stop>>
    /\ UNCHANGED tunnelRest

\* _disconnect_host: the host's stop event is set, the server sockets and
\* the SSH client are closed.  The accept loops are joined for a second
\* each and leave in their own steps.
DisconnectHost ==
    /\ host_stop' = TRUE
    /\ ssh_client' = "none"
    /\ transport_active' = FALSE

\* _reconnect_loop after its wait: "Disconnect first".
ReconnectDisconnect(i) ==
    /\ i \in 1..Len(reconnect_threads)
    /\ reconnect_threads[i] = "slept"
    /\ DisconnectHost
    /\ reconnect_threads' = [reconnect_threads EXCEPT ![i] = "disconnected"]
    /\ UNCHANGED <<mgr_started, mgr_stop, accept_loop, since_stop>>
    /\ UNCHANGED tunnelRest

\* _reconnect_loop: "Try to connect"; success returns, failure doubles the
\* delay and goes back to the while test.
ReconnectConnect(i, ok) ==
    /\ i \in 1..Len(reconnect_threads)
    /\ reconnect_threads[i] = "disconnected"
    /\ \A t \in Tunnels : accept_loop[t] = "none"
    /\ ConnectHost(ok, [reconnect_threads EXCEPT
                           ![i] = IF ok \/ mgr_stop THEN "returned" ELSE "waiting"])
    /\ UNCHANGED <<mgr_started, mgr_stop>>
    /\ UNCHANGED tunnelRest

\* TunnelManager.stop(): the stop event is set and the host disconnected;
\* the reconnect threads are joined for two seconds each and forgotten.
ManagerStop ==
    /\ mgr_started
    /\ ~mgr_stop
    /\ mgr_stop' = TRUE
    /\ DisconnectHost
    /\ UNCHANGED <<mgr_started, accept_loop, reconnect_threads, since_stop>>
    /\ UNCHANGED tunnelRest

----------------------------------------------------------------------------
(* Initial states and specifications.                                      *)

\* The components outside the coordinator are at rest.
AuxIdle ==
    /\ BusIdle
    /\ CreateIdle
    /\ TimerIdle
    /\ TunnelIdle

EmptyRegistry ==
    NodeRegistry(NodeConfig(Str(LocalHostname), Str("/data/repos/castle"),
                            Num(GatewayPortDefault)), EmptyMap)

SerIdle ==
    /\ ser_registry = EmptyRegistry
    /\ ser_result = NotCalled

MeshInit ==
    /\ nodes = EmptyMap
    /\ entries = <<>>
    /\ now = 0
    /\ scheduled = <<>>
    /\ last = [topic |-> <<>>, outcome |-> "none"]
    /\ reader = ReaderIdle

StreamInit ==
    /\ subscribers = <<>>
    /\ queue = [c \in Conns |-> <<>>]
    /\ gen = [c \in Conns |-> "none"]
    /\ should_exit = FALSE
    /\ shutting_down = FALSE
    /\ watcher = "polling"
    /\ lifespan = "running"
    /\ poll_task = "running"
    /\ closed_for = {}

MqttIdle ==
    /\ connected = FALSE
    /\ session = "none"
    /\ net_thread = "none"
    /\ out_packet = <<>>
    /\ broker_rx = <<>>
    /\ subscribed = {}
    /\ stop_pc = "idle"
    /\ connects = 0
    /\ last_connect = [called |-> FALSE, rc_ok |-> FALSE, packets |-> <<>>,
                       raised |-> FALSE]

MqttInit ==
    /\ local_registry \in LocalRegistries
    /\ MqttIdle

\* The process after construction: nothing serialized, no peer known, no
\* SSE connection, the MQTT client not started.
Init ==
    /\ SerIdle
    /\ MeshInit
    /\ StreamInit
    /\ MqttIdle
    /\ local_registry = EmptyRegistry
    /\ ActIdle
    /\ DeployIdle
    /\ ViewIdle
    /\ EditIdle
    /\ AuxIdle

\* As Init, with any registry about to be serialized.
SerSpecInit ==
    /\ SerInit
    /\ MeshInit
    /\ StreamInit
    /\ MqttIdle
    /\ local_registry = EmptyRegistry
    /\ ActIdle
    /\ DeployIdle
    /\ ViewIdle
    /\ EditIdle
    /\ AuxIdle

\* As Init, with any local registry handed to the MQTT client.
MqttSpecInit ==
    /\ SerIdle
    /\ MeshInit
    /\ StreamInit
    /\ MqttInit
    /\ ActIdle
    /\ DeployIdle
    /\ ViewIdle
    /\ EditIdle
    /\ AuxIdle

\* As Init, with the managed units in any state.
ActionSpecInit ==
    /\ SerIdle
    /\ MeshInit
    /\ StreamInit
    /\ MqttIdle
    /\ local_registry = EmptyRegistry
    /\ ActInit
    /\ DeployIdle
    /\ ViewIdle
    /\ EditIdle
    /\ AuxIdle

\* The serializer on its own.
SerNext == Serialize
SerSpec ==
    /\ SerSpecInit
    /\ [][SerNext]_vars

\* The inbound side of the mesh.
MeshNext ==
    \/ \E msg \in Messages : OnMessage(msg)
    \/ LoopRunBroadcast
    \/ Tick
MeshSpec ==
    /\ Init
    /\ [][MeshNext]_vars

\* What the code schedules by itself: paho delivers what the broker sends,
\* the event loop runs what was handed to it, time passes.
MeshFairSpec ==
    /\ MeshSpec
    /\ WF_vars(Tick)
    /\ WF_vars(LoopRunBroadcast)
    /\ WF_vars(\E msg \in Messages : OnMessage(msg))

\* The inbound side with an API handler reading concurrently.
ReaderMessages ==
    { m \in Messages :
        /\ m.topic[2] \in Peers
        /\ \/ m.topic[3] = "registry"
              /\ m.payload = RegistryToJson(PeerRegistry(m.topic[2], GatewayPortDefault)).value
           \/ m.topic[3] = "status" /\ m.payload = RawText("offline") }
ReaderNext ==
    \/ \E msg \in ReaderMessages : OnMessage(msg)
    \/ LoopRunBroadcast
    \/ Tick
    \/ ReaderCallCopy
    \/ ReaderCallFresh
    \/ ReaderCompNext
    \/ ReaderIterNext
    \/ ReaderReturn
ReaderSpec ==
    /\ Init
    /\ [][ReaderNext]_vars

\* The SSE side.
StreamNext ==
    \/ \E c \in Conns : SseStream(c)
    \/ \E c \in Conns : GenNext(c)
    \/ \E c \in Conns : ClientDisconnect(c)
    \/ HealthPoll
    \/ Signal
    \/ WatchShutdown
    \/ LifespanShutdown
    \/ WatcherCancel
StreamSpec ==
    /\ Init
    /\ [][StreamNext]_vars

\* The local MQTT client.
MqttNext ==
    \/ Start
    \/ \E rc_ok \in BOOLEAN : ConnAck(rc_ok)
    \/ NetWrite
    \/ ConnLost
    \/ StopPublish
    \/ StopLoopStop
    \/ StopDisconnect
MqttSpec ==
    /\ MqttSpecInit
    /\ [][MqttNext]_vars

\* The service actions.
ActionNext ==
    \/ \E name \in RequestNames, action \in ServiceActions : DoActionBegin(name, action)
    \/ RunSystemctl
    \/ PollIsActive
    \/ BroadcastAndAnswer
    \/ DeferredRun
    \/ \E n \in ManagedNames : UnitFails(n)
    \/ ClockTick
ActionSpec ==
    /\ ActionSpecInit
    /\ [][ActionNext]_vars

\* As Init, with any catalog and PATH, before the first compile.
DeploySpecInit ==
    /\ SerIdle
    /\ MeshInit
    /\ StreamInit
    /\ MqttIdle
    /\ local_registry = EmptyRegistry
    /\ ActIdle
    /\ DeployInit
    /\ ViewIdle
    /\ EditIdle
    /\ AuxIdle

\* Compiles of the catalog, with another process reading the registry.
DeployNext ==
    \/ \E target_name \in {None} \cup {Str(n) : n \in TargetIds} : RunDeploy(target_name)
    \/ SaveOpen
    \/ \E names \in SUBSET (ServiceIds \cup JobIds) : SaveFlush(names)
    \/ SaveClose
    \/ DeployReturn
    \/ \E config \in Catalogs : EditCatalog(config)
    \/ ReadRegistry
DeploySpec ==
    /\ DeploySpecInit
    /\ [][DeployNext]_vars

\* As Init, with any registry, catalog and mesh view to assemble from.
ViewSpecInit ==
    /\ SerIdle
    /\ MeshInit
    /\ StreamInit
    /\ MqttIdle
    /\ local_registry = EmptyRegistry
    /\ ActIdle
    /\ DeployIdle
    /\ ViewInit
    /\ EditIdle
    /\ AuxIdle

\* The gateway configuration and the views.
ViewNext ==
    \/ WriteCaddyfile
    \/ GetGateway
    \/ \E include_remote \in BOOLEAN : GetComponents(include_remote)
    \/ \E include_remote \in BOOLEAN : GetServices(include_remote)
ViewSpec ==
    /\ ViewSpecInit
    /\ [][ViewNext]_vars

\* As Init, with any catalog on disk and no backup yet.
EditSpecInit ==
    /\ SerIdle
    /\ MeshInit
    /\ StreamInit
    /\ MqttIdle
    /\ local_registry = EmptyRegistry
    /\ ActIdle
    /\ DeployIdle
    /\ ViewIdle
    /\ EditInit
    /\ AuxIdle

\* The operations that save the catalog.
EditNext ==
    \/ \E text \in RequestTexts : SaveYaml(text)
    \/ \E name \in EditIds, port \in EditPorts : SaveService(name, port)
    \/ \E name \in EditIds : DeleteService(name)
EditSpec ==
    /\ EditSpecInit
    /\ [][EditNext]_vars

\* As Init; the event bus serves requests.
BusSpecInit ==
    /\ Init

\* The event bus: its life cycle, the subscription calls and one publish.
BusNext ==
    \/ BusStart
    \/ BusStop
    \/ \E t \in BusTopics, u \in CallbackUrls : \E l \in LabelsOf(u) :
          BusSubscribe(t, u, l)
    \/ \E t \in BusTopics, u \in CallbackUrls : BusUnsubscribe(t, u)
    \/ \E t \in BusTopics : BusPublish(t)
    \/ \E i \in 1..Cardinality(CallbackUrls), a \in Answers : BusDeliver(i, a)
    \/ BusPublishReturn
BusSpec ==
    /\ BusSpecInit
    /\ [][BusNext]_vars

\* As Init; catalogs are loaded, created into and saved.
CreateSpecInit ==
    /\ Init

CreateNext ==
    \/ \E doc \in CatalogDocs : CreateLoad(doc)
    \/ \E name \in CreateNames, proj_type \in {"service", "tool"},
          port_arg \in ExposeArgs : RunCreate(name, proj_type, port_arg)
    \/ \E name \in CreateNames, port \in CreatePorts : PutService(name, port)
CreateSpec ==
    /\ CreateSpecInit
    /\ [][CreateNext]_vars

\* Everything at rest, and any schedule about to be converted.
TimerSpecInit ==
    /\ SerIdle
    /\ MeshInit
    /\ StreamInit
    /\ MqttIdle
    /\ local_registry = EmptyRegistry
    /\ ActIdle
    /\ DeployIdle
    /\ ViewIdle
    /\ EditIdle
    /\ BusIdle
    /\ CreateIdle
    /\ TimerInit
    /\ TunnelIdle

TimerNext ==
    \/ GenerateTimer
TimerSpec ==
    /\ TimerSpecInit
    /\ [][TimerNext]_vars

\* As Init; the tunnel manager is started, loses its link and is stopped.
TunnelSpecInit ==
    /\ Init

TunnelNext ==
    \/ \E ok \in BOOLEAN : ManagerStart(ok)
    \/ LinkLost
    \/ \E t \in Tunnels : AcceptExit(t)
    \/ \E t \in Tunnels : AcceptTrailer(t)
    \/ \E i \in 1..MaxReconnectThreads : ReconnectSeesStop(i)
    \/ \E i \in 1..MaxReconnectThreads : ReconnectWaitOver(i)
    \/ \E i \in 1..MaxReconnectThreads : ReconnectDisconnect(i)
    \/ \E i \in 1..MaxReconnectThreads, ok \in BOOLEAN : ReconnectConnect(i, ok)
    \/ ManagerStop
TunnelSpec ==
    /\ TunnelSpecInit
    /\ [][TunnelNext]_vars

Spec == StreamSpec

----------------------------------------------------------------------------
(* Properties of the registry payload (SerSpec).                           *)

\* The keys of a registry payload: of the document, of its node object and
\* of every entry under "deployed" (the component names are data, not keys
\* of the format).
PayloadKeys(doc) ==
    DOMAIN doc.v
    \cup (IF "node" \in DOMAIN doc.v THEN DOMAIN doc.v["node"].v ELSE {})
    \cup (IF "deployed" \in DOMAIN doc.v
          THEN UNION { DOMAIN doc.v["deployed"].v[n].v : n \in DOMAIN doc.v["deployed"].v }
          ELSE {})

SensitiveKeys == {"env", "run_cmd", "castle_root"}

----------------------------------------------------------------------------
(* Properties of the SSE fan-out and of shutdown (StreamSpec).             *)

\* C2: a round of the poll loop is never held up by a subscriber (it can
\* always run), and what it does to each subscriber depends on that
\* subscriber's queue alone: a queue with room gets the frame and stays
\* subscribed, a full queue is left as it is and leaves the list.
C2_BroadcastDropsFullQueues ==
    /\ [](poll_task = "running" => ENABLED HealthPoll)
    /\ [][HealthPoll =>
            \A c \in Conns :
                IF InSeq(subscribers, c) /\ ~Full(queue[c])
                THEN /\ queue'[c] = Append(queue[c], Frame("health", HealthData))
                     /\ InSeq(subscribers', c)
                ELSE /\ queue'[c] = queue[c]
                     /\ ~InSeq(subscribers', c)]_vars

\* One connection was dropped with its queue full while the server runs, and
\* another, behind it, is still subscribed and holds the frame.
C2_Witness ==
    \E c, d \in Conns :
        /\ c # d
        /\ ~shutting_down
        /\ gen[c] = "reading" /\ ~InSeq(subscribers, c) /\ Full(queue[c])
        /\ InSeq(subscribers, d) /\ queue[d] # <<>>
        /\ queue[d][Len(queue[d])] = Frame("health", HealthData)

\* C3: every connection that was subscribed when close_all_subscribers ran
\* either has the sentinel in its queue or has already left its generator.
C3_EveryGeneratorReleased ==
    \A c \in closed_for : gen[c] = "reading" => InSeq(queue[c], Sentinel)

----------------------------------------------------------------------------
(* Properties of the inbound mesh path (MeshSpec, MeshFairSpec,            *)
(* ReaderSpec).                                                            *)

RegistryMessage(h, payload) ==
    [topic |-> <<"castle", h, "registry">>, payload |-> payload]

StatusMessage(h, text) ==
    [topic |-> <<"castle", h, "status">>, payload |-> RawText(text)]

\* The registry held for a peer is the one the payload's document describes.
HoldsReceived(registry, doc) ==
    /\ registry.node.hostname = doc.v["node"].v["hostname"]
    /\ registry.node.gateway_port = doc.v["node"].v["gateway_port"]
    /\ DOMAIN registry.deployed = DOMAIN doc.v["deployed"].v

\* C4: a well-formed registry message for a peer leaves that peer's
\* RemoteNode holding the received registry, last_seen at the receipt time
\* and online true; one on the node's own hostname changes nothing.
C4_RegistryReplacesPeer ==
    [][\A h \in TopicHosts : \A payload \in RegistryPayloads(h) :
          OnMessage(RegistryMessage(h, payload)) =>
              IF h = LocalHostname
              THEN nodes' = nodes
              ELSE /\ h \in DOMAIN nodes'
                   /\ nodes'[h].online
                   /\ nodes'[h].last_seen = now
                   /\ HoldsReceived(nodes'[h].registry, payload.doc)
                   /\ \A k \in DOMAIN nodes \ {h} :
                          k \in DOMAIN nodes' /\ nodes'[k] = nodes[k]]_vars

\* C5: status "offline" for a known peer sets that peer's online to false
\* and keeps its registry and last_seen in mesh state; no other peer changes.
C5_OfflineKeepsRegistry ==
    [][\A h \in Peers :
          (OnMessage(StatusMessage(h, "offline")) /\ h \in DOMAIN nodes) =>
              /\ DOMAIN nodes' = DOMAIN nodes
              /\ ~nodes'[h].online
              /\ nodes'[h].registry = nodes[h].registry
              /\ nodes'[h].last_seen = nodes[h].last_seen
              /\ \A k \in DOMAIN nodes \ {h} : nodes'[k] = nodes[k]]_vars

\* A peer that was online is held as offline after its status message.
C5_Witness ==
    \E h \in Peers :
        /\ last = [topic |-> <<"castle", h, "status">>, outcome |-> "offline"]
        /\ h \in DOMAIN nodes
        /\ ~nodes[h].online
        /\ nodes[h].registry.node.hostname = Str(h)

\* C6: a malformed payload from a peer (text that is not JSON, JSON of the
\* wrong shape, bytes that are not UTF-8) ends in the handler's log call: the
\* handler returns, and neither the mesh state nor the scheduled broadcasts
\* change.
C6_MalformedLeavesStateUnchanged ==
    [][\A h \in Peers : \A payload \in MalformedPayloads :
          OnMessage(RegistryMessage(h, payload)) =>
              /\ last'.outcome = "logged"
              /\ nodes' = nodes
              /\ entries' = entries
              /\ scheduled' = scheduled]_vars

\* A malformed payload arrived for a peer that mesh state already holds.
C6_Witness ==
    \E h \in Peers :
        /\ last = [topic |-> <<"castle", h, "registry">>, outcome |-> "logged"]
        /\ h \in DOMAIN nodes
        /\ nodes[h].online

\* C7: a peer whose last registry receipt is more than STALE_TTL_SECONDS old
\* is eventually gone from mesh state (or has been heard from again).
C7_StalePeerEventuallyRemoved ==
    \A h \in Peers :
        (h \in DOMAIN nodes /\ IsStale(nodes[h], now))
            ~> (h \notin DOMAIN nodes \/ ~IsStale(nodes[h], now))

\* C8: a handler's call of all_nodes() never ends in an exception while
\* the MQTT thread writes mesh state.
C8_AllNodesNeverFails == reader.pc # "RuntimeError"

----------------------------------------------------------------------------
(* Properties of the local MQTT client (MqttSpec).                         *)

Publishes(packets) == SelectSeq(packets, LAMBDA p : p.type = "PUBLISH")

OnlinePublish  == Publish(StatusTopic, RawText("online"))
OfflinePublish == Publish(StatusTopic, RawText("offline"))

\* C9: a successful connect hands paho exactly two publishes, the retained
\* status "online" and then the registry; a failed connect hands it none.
C9_ConnectPublishesStatusThenRegistry ==
    last_connect.called =>
        LET pubs == Publishes(last_connect.packets)
        IN  IF last_connect.rc_ok
            THEN /\ Len(pubs) = 2
                 /\ pubs[1] = OnlinePublish
                 /\ pubs[2].topic = RegistryTopic
                 /\ pubs[2].retain
            ELSE pubs = <<>>

\* C10: once stop() has made its first call the offline publish is on its
\* way or at the broker, and the broker never sees this client's DISCONNECT
\* without having received the offline publish before it.
C10_OfflineBeforeDisconnect ==
    /\ stop_pc # "idle" => InSeq(broker_rx \o out_packet, OfflinePublish)
    /\ \A i \in 1..Len(broker_rx) :
           broker_rx[i].type = "DISCONNECT" =>
               \E j \in 1..(i - 1) : broker_rx[j] = OfflinePublish

\* stop() ran to its end on a live connection: the broker holds the offline
\* publish and, after it, the DISCONNECT.
C10_Witness ==
    /\ stop_pc = "done"
    /\ broker_rx # <<>>
    /\ broker_rx[Len(broker_rx)].type = "DISCONNECT"
    /\ InSeq(broker_rx, OfflinePublish)

----------------------------------------------------------------------------
(* Properties of the service actions (ActionSpec).                         *)

\* The handler broadcast a frame for the request it answered last.
FrameSent == answered.frame \in 1..Len(emitted)

\* C11: when the control command of an action exits non-zero the answer is
\* HTTP 500 with the command's output, and the health frame for that action
\* is broadcast all the same.
C11_FailedActionStillBroadcast ==
    (answered.ran /\ ~answered.ok) =>
        /\ answered.code = 500
        /\ answered.output # "" => answered.body.detail = answered.output
        /\ FrameSent

\* C12: the status of an action's response is the string is-active printed
\* after the action, and when that string is "failed" the response is
\* HTTP 500.
C12_StatusVerbatimFailedIs500 ==
    answered.ran =>
        /\ answered.code = 200 => answered.body.status = answered.polled
        /\ answered.polled = "failed" => answered.code = 500

\* C13: once the handler has run an action it has broadcast a health frame
\* of its own, in which the acted component is "up" exactly when is-active
\* printed "active".
C13_FrameCarriesSystemdStatus ==
    answered.ran =>
        /\ FrameSent
        /\ answered.name \in DOMAIN emitted[answered.frame].statuses
        /\ emitted[answered.frame].statuses[answered.name]
              = (IF answered.polled = "active" THEN "up" ELSE "down")

----------------------------------------------------------------------------
(* Properties of the registry compiler (DeploySpec).                       *)

\* The entries of a registry file, as load_registry returns them; none when
\* there is no readable file.
EntriesOf(f) ==
    LET r == LoadRegistry(f) IN IF r.ok THEN r.value.deployed ELSE EmptyMap

\* The registry file a compile of the whole catalog writes.
FullCompile(config, path_has_tools) ==
    WholeFile(RegistryToYaml(NodeRegistry(DeployNode,
        [n \in CatalogIds(config) |-> BuildDeployed(config, n, path_has_tools)])))

\* C15: a load_registry that runs concurrently with a compile returns the
\* complete registry of before the compile or the complete new one, never
\* an error for an empty file nor a registry with entries missing.
C15_ReaderSeesOldOrNew ==
    reg_read.called =>
        reg_read.result \in {LoadRegistry(reg_read.old), LoadRegistry(reg_read.new)}

\* C16 as stated: after any compile, every entry of the registry belongs to
\* a service or job of the catalog compiled and is the entry built from it,
\* whatever registry an earlier compile left.
C16_RegistryHoldsOnlyCatalog ==
    deploy_result.done =>
        LET after == EntriesOf(deploy_result.after)
        IN  \A n \in DOMAIN after :
                /\ n \in CatalogIds(deploy_result.config)
                /\ after[n] = BuildDeployed(deploy_result.config, n, deploy_result.path_has)

\* C16 amended: a compile of the whole catalog writes the registry built
\* from the catalog alone, whatever registry was there before; a compile
\* scoped to one component rebuilds that component's entry if the catalog
\* has it and keeps every other entry of the registry it found.
C16_FullCompileIsPure ==
    deploy_result.done =>
        LET config == deploy_result.config
            target == deploy_result.target
            before == EntriesOf(deploy_result.before)
            after  == EntriesOf(deploy_result.after)
            built  == IF target = None THEN {}
                      ELSE {n \in CatalogIds(config) : Str(n) = target}
        IN  IF target = None
            THEN deploy_result.after = FullCompile(config, deploy_result.path_has)
            ELSE /\ DOMAIN after = DOMAIN before \cup built
                 /\ \A n \in DOMAIN after :
                        after[n] = IF n \in built
                                   THEN BuildDeployed(config, n, deploy_result.path_has)
                                   ELSE before[n]

\* A compile of the whole catalog has run over a registry that held an
\* entry of a service or job the catalog no longer has.
C16_Witness ==
    /\ deploy_result.done
    /\ deploy_result.target = None
    /\ DOMAIN EntriesOf(deploy_result.before) \ CatalogIds(deploy_result.config) # {}
    /\ CatalogIds(deploy_result.config) # {}

\* C17: a compile scoped to a component the catalog does not have does not
\* return success.
C17_AbsentTargetFails ==
    ( /\ deploy_result.done
      /\ deploy_result.target # None
      /\ \A n \in CatalogIds(deploy_result.config) : Str(n) # deploy_result.target )
    => ~deploy_result.outcome.ok

----------------------------------------------------------------------------
(* Properties of the gateway configuration and the views (ViewSpec).       *)

\* The proxy paths of the local deployments that have a port.
LocalRoutedPaths ==
    { view_registry.deployed[n].proxy_path.v :
        n \in { m \in DOMAIN view_registry.deployed :
                    /\ Truthy(view_registry.deployed[m].proxy_path)
                    /\ Truthy(view_registry.deployed[m].port) } }

\* The local deployments that have path P and a port.
LocalClaimants(P) ==
    { n \in DOMAIN view_registry.deployed :
        /\ view_registry.deployed[n].proxy_path = Str(P)
        /\ Truthy(view_registry.deployed[n].port) }

\* The positions of the routes for path P in the configuration produced.
RoutesFor(P) ==
    IF view_out.endpoint = "caddyfile"
    THEN { i \in 1..Len(view_out.caddyfile.blocks) :
             /\ view_out.caddyfile.blocks[i].directive = "handle_path"
             /\ view_out.caddyfile.blocks[i].path = P }
    ELSE { i \in 1..Len(view_out.routes) : view_out.routes[i].path = P }

\* The route at position i points to this node.
IsLocalRoute(i) ==
    IF view_out.endpoint = "caddyfile"
    THEN view_out.caddyfile.blocks[i].upstream[1] = "localhost"
    ELSE view_out.routes[i].node = view_registry.node.hostname.v

\* C18 as stated: for every proxy path that a local deployment claims with
\* a port, the gateway configuration has exactly one route, and it points
\* to this node.
C18_ExactlyOneLocalRoute ==
    view_out.endpoint \in {"caddyfile", "gateway"} =>
        \A P \in LocalRoutedPaths :
            /\ Cardinality(RoutesFor(P)) = 1
            /\ \A i \in RoutesFor(P) : IsLocalRoute(i)

\* C18 amended: for every proxy path of a local deployment with a port, the
\* gateway configuration has one route per such deployment, every route
\* for the path points to this node, and none is a remote route.
C18_LocalRoutesOnly ==
    view_out.endpoint \in {"caddyfile", "gateway"} =>
        \A P \in LocalRoutedPaths :
            /\ Cardinality(RoutesFor(P)) = Cardinality(LocalClaimants(P))
            /\ \A i \in RoutesFor(P) : IsLocalRoute(i)

\* GET /gateway has answered for a path that is routed here and that a
\* peer deploys as well.
C18_Witness ==
    /\ view_out.endpoint = "gateway"
    /\ \E P \in LocalRoutedPaths, h \in DOMAIN view_mesh :
          \E n \in DOMAIN view_mesh[h].registry.deployed :
              view_mesh[h].registry.deployed[n].proxy_path = Str(P)

\* The ids a view holds a local entry for: everything deployed here in
\* /components, what is deployed here without a schedule in /services.
LocalIdsOfView ==
    { n \in DOMAIN view_registry.deployed :
        view_out.endpoint = "services" => ~Truthy(view_registry.deployed[n].schedule) }

\* The positions of the items for id n in the view produced.
ItemsFor(n) == { i \in 1..Len(view_out.items) : view_out.items[i].id = n }

----------------------------------------------------------------------------
(* Properties of the catalog editor (EditSpec).                            *)

\* C20: after any operation that saved the catalog, castle.yaml.bak holds
\* exactly the content castle.yaml had before that save.
C20_BackupHoldsPreviousCatalog ==
    last_save.saved => backup_file = BackupOf(last_save.before)

----------------------------------------------------------------------------
(* Round trip of the mesh serialization (SerSpec).                         *)

RoundTripFields ==
    {"runner", "behavior", "stack", "description", "port", "health_path",
     "proxy_path", "schedule", "managed"}

\* _json_to_registry(_registry_to_json(registry)) restored what the round
\* trip is to preserve.
RoundTripPreserves(registry, restored) ==
    /\ restored.ok
    /\ restored.value.node.hostname = registry.node.hostname
    /\ restored.value.node.gateway_port = registry.node.gateway_port
    /\ DOMAIN restored.value.deployed = DOMAIN registry.deployed
    /\ \A n \in DOMAIN registry.deployed : \A f \in RoundTripFields :
          restored.value.deployed[n][f] = registry.deployed[n][f]

\* C21: serializing a registry for the mesh and parsing it back preserves
\* the node's hostname and gateway_port and, for every deployed component,
\* its runner, behavior, stack, description, port, health_path, proxy_path,
\* schedule and managed flag.
C21_RoundTripPreservesFields ==
    ser_result.called =>
        /\ ser_result.result.ok
        /\ RoundTripPreserves(ser_registry,
                              JsonToRegistry(ser_result.result.value))

----------------------------------------------------------------------------
(* Order of the retained messages of one peer (MeshSpec).                  *)

\* The last message handled was status "offline" for h, and h was and is
\* unknown to mesh state.
OfflineSeenFirst(h) ==
    /\ last = [topic |-> <<"castle", h, "status">>, outcome |-> "offline"]
    /\ h \notin DOMAIN nodes

\* C27: a peer's online flag agrees with the most recent status retained for
\* it whatever the delivery order: when status "offline" for peer h was
\* handled while h was unknown and h's retained registry is handled next,
\* the RemoteNode that mesh state then holds for h has online false.
C27_OfflineFirstStaysOffline ==
    [][\A h \in Peers : \A payload \in RegistryPayloads(h) :
          (OfflineSeenFirst(h) /\ OnMessage(RegistryMessage(h, payload))) =>
              (h \in DOMAIN nodes' => ~nodes'[h].online)]_vars

----------------------------------------------------------------------------
(* A subscriber dropped by broadcast (StreamSpec).                         *)

\* The generator of c waits in q.get() on an empty queue that is in no
\* subscriber list while the server runs: neither broadcast nor
\* close_all_subscribers will ever put anything on it.
WaitsOnOrphanQueue(c) ==
    /\ gen[c] = "reading"
    /\ ~InSeq(subscribers, c)
    /\ queue[c] = <<>>
    /\ ~shutting_down

\* C28: a subscriber that broadcast dropped because its queue was full does
\* not wait forever: once it has drained the frames already queued, its
\* generator has terminated and is not left reading a queue that receives
\* neither frames nor the sentinel.
C28_DroppedSubscriberTerminates ==
    \A c \in Conns : ~WaitsOnOrphanQueue(c)

----------------------------------------------------------------------------
(* Order of the shutdown (StreamSpec).                                     *)

\* C24: on shutdown the watcher task releases all SSE subscribers, and only
\* after that does the lifespan tear down: once the watcher has made its
\* release no generator is left reading a queue without the sentinel, and
\* the lifespan's teardown has not run while the watcher was still polling.
C24_WatcherReleasesBeforeTeardown ==
    /\ watcher = "done" =>
           \A c \in Conns : gen[c] = "reading" => InSeq(queue[c], Sentinel)
    /\ lifespan = "stopped" => watcher = "done"

----------------------------------------------------------------------------
(* Properties of the event bus (BusSpec).                                  *)

\* The callbacks of the returned publish that answered with a 2xx status.
Answered2xx ==
    { i \in 1..Len(publish.tasks) :
        /\ publish.answers[i].kind = "response"
        /\ publish.answers[i].status \in 200..299 }

C23_UniqueByTopicAndCallback ==
    /\ \A t \in DOMAIN subscriptions :
          \A i, j \in 1..Len(subscriptions[t]) :
              /\ subscriptions[t][i].topic = t
              /\ subscriptions[t][i].callback_url = subscriptions[t][j].callback_url
                     => i = j
    /\ (bus_last.op = "subscribe" /\ bus_last.present) => ~bus_last.changed

\* A pair was subscribed again, under another label, while one callback is
\* subscribed to both topics and one topic holds both callbacks.
C23_Witness ==
    /\ bus_last = BusCall("subscribe", TRUE, TRUE, FALSE)
    /\ DOMAIN subscriptions = BusTopics
    /\ \E t \in BusTopics : Len(subscriptions[t]) = 2

----------------------------------------------------------------------------
(* Properties of the accepted catalog (CreateSpec).                        *)

\* The entries of a catalog that expose an internal HTTP port.
PortHolders(cfg) ==
    UNION { { <<"components", n, p>> : p \in cfg.components[n].expose } :
            n \in DOMAIN cfg.components }
    \cup UNION { { <<"services", n, p>> : p \in cfg.services[n] } :
                 n \in DOMAIN cfg.services }

\* C25: in every catalog that load, create or save accepted, no two
\* services have the same expose.http.internal.port and none uses the
\* gateway port.
C25_PortsUniquePerNode ==
    create_last.accepted =>
        \A a, b \in PortHolders(create_config) :
            /\ a[3] = b[3] => a = b
            /\ a[3] # create_config.gateway

----------------------------------------------------------------------------
(* Properties of the cron-to-timer conversion (TimerSpec).                 *)

IsNumber(field) == field # <<>> /\ \A i \in 1..Len(field) : field[i] \in Digits

\* "m h * * *" with numeric m and h.
IsDailyAt(parts) ==
    /\ Len(parts) = 5
    /\ IsNumber(parts[1]) /\ IsNumber(parts[2])
    /\ parts[3] = Star /\ parts[4] = Star /\ parts[5] = Star

\* "*/N * * * *" with a number N.
IsEveryN(parts) ==
    /\ Len(parts) = 5
    /\ StartsWithStarSlash(parts[1])
    /\ IsNumber(SubSeq(parts[1], 3, Len(parts[1])))
    /\ parts[2] = Star /\ parts[3] = Star /\ parts[4] = Star /\ parts[5] = Star

\* C26: the conversion has exactly three outcomes: "m h * * *" with numeric
\* m and h gives OnCalendar=*-*-* HH:MM:00, "*/N * * * *" gives a repeat
\* interval of N*60 seconds, and every other schedule gives the 300-second
\* interval and no OnCalendar line.
C26_ThreeOutcomes ==
    timer_lines.called =>
        timer_lines.result =
            IF IsDailyAt(timer_cron)
            THEN "OnCalendar=*-*-* " \o Join(Zfill2(timer_cron[2])) \o ":"
                     \o Join(Zfill2(timer_cron[1])) \o ":00\n"
            ELSE IF IsEveryN(timer_cron)
            THEN "OnBootSec=60\nOnUnitActiveSec="
                     \o ToString(60 * DecimalValue(SubSeq(timer_cron[1], 3,
                                                          Len(timer_cron[1]))))
                     \o "s\n"
            ELSE "OnBootSec=60\nOnUnitActiveSec=300\n"

----------------------------------------------------------------------------
(* Properties of the tunnel manager (TunnelSpec).                          *)

\* C29: at most one reconnect loop is active for the host at any time,
\* however many of its accept loops noticed the lost connection or left
\* because of a reconnect.
C29_OneReconnectLoopPerHost ==
    Cardinality(ActiveReconnects) <= 1

\* C30: after stop() has been called no new SSH connection is opened and no
\* new reconnect thread is started, and once every reconnect loop has
\* returned the host is not connected.
C30_NothingOpensAfterStop ==
    mgr_stop =>
        /\ ~since_stop.connected
        /\ ~since_stop.spawned
        /\ ActiveReconnects = {} => ssh_client = "none"

====
